---- MODULE Spec2Model ----
(***************************************************************************)
(* Model of the client-side AnalyticsManager of the Application Insights   *)
(* PoC (js/analytics.js) together with the form elements of the dashboard  *)
(* page it reads and writes.  One AnalyticsManager instance (one session)  *)
(* is modelled at a time; every method the dashboard buttons call is one   *)
(* action, and Reload starts the next session over the same localStorage.  *)
(* The methods fall into two groups that share no field they write: Next   *)
(* has the methods that work on the manager's fields and the page only,    *)
(* StoreNext the methods that read or write localStorage.  Within Next,    *)
(* JourneyNext has the methods of the purchase journey and WebNext the     *)
(* methods that read neither the form nor the journey's identifiers.       *)
(* The counter texts the methods write into the page mirror `metrics` and  *)
(* are never read back; they are not part of the state.                    *)
(***************************************************************************)
EXTENDS Integers, Sequences, FiniteSets, TLC

\* ------------------------------------------------------------------ bounds
\* the clock (Date.now()) runs from 0 to MaxTime
MaxTime == 1
\* the five counters together never exceed MaxOps (caps the counters)
MaxOps == 4
\* calls of the sink that throw in one session of SinkFailureSpec
MaxThrows == 1
\* days the page stays open while the user is away
MaxAway == 2
\* timer intervals the page stays open in TimerSpec
MaxWait == 1

\* ------------------------------------------------------------- vocabulary
\* characters a user types into the coverage amount field
Digits == {"5"}
CustomerNames == {"", "Alice"}
\* the <option> values of the insuranceType <select> (first two of them)
InsuranceTypes == {"", "auto"}
PersonalInfos == {"", "Alice Smith"}

\* the texts a user enters into the coverage amount field: nothing, a number,
\* no number, a number followed by something else
RawInputs == {<<>>, <<"5">>, <<"x">>, <<"5", "x">>}

\* the variants the page offers
Variants == {"variant_a", "variant_b"}
\* conversion probabilities and draws of Math.random(), in hundredths
RateVariantA == 15
RateOtherwise == 22
Draws == {14, 15, 21, 22}
\* no call of Math.random()
NoDraw == -1
\* simulated page load times in ms, within [500, 3500)
LoadTimes == {500, 3490}
segments == {"high_value", "mobile_user", "enterprise", "small_business"}
MsPerSecond == 1000
\* 1000 * 60 * 60 * 24
MsPerDay == 86400000
\* draws of Math.random() in hundredths, for the simulated cohort figures
UnitDraws == {0, 99}

\* outcomes of Math.random().toString(36).substr(2, 9)
Randoms == {"k3j9x2m1q", "p0d8f7s6a"}
\* the keys of localStorage the manager uses
StorageKeys == {"app_insights_user_id", "visitor_type", "last_visit", "user_cohort",
                "cohort_join_date"}
\* the local calendar date when the page is opened: getMonth() counts from 0
OpeningDate == [year |-> 2024, month |-> 2, day |-> 31]
\* dates the clock may show when a cohort identifier is computed
Years == {1970, 2024, 9999}
Months == 0..11
Days == {1, 15, 28}

\* ------------------------------------------------------------------ state
VARIABLES
  now,                   \* Date.now()
  appInsights,           \* window.appInsights is an object (TRUE) or undefined
  faultsLeft,            \* how many more calls of the sink will throw
  sessionId,
  sessionStartTime,
  pageViewCount,
  currentQuoteId,
  currentApplicationId,
  metrics,
  dom,                   \* the form fields and journey buttons of the page
  status,                \* what the last step's showStatus displayed (NoStatus: no call of it)
  emitted,               \* the events the last step handed to the sink
  called,                \* the method the last step called ("none": not a call)
  raised,                \* the last step's call ended by an exception reaching its caller
  random,                \* what Math.random() returned to the last step's runABTest (else NoDraw)
  okCalls,               \* history: calls that ran to their success status
  stage,                 \* history: the last funnel call that succeeded
  appCompleted,          \* history: completeApplication succeeded for the active application
  quoteAtStart,          \* history: currentQuoteId when the active application was started
  typedCoverage,         \* history: the text last entered into the coverage amount field
  userId,
  constructed,           \* the constructor's try block ran to its end (else: fields undefined)
  localStorage,          \* key -> <<>> (getItem gives null) or <<value>>
  storageThrows,         \* every getItem, setItem and removeItem throws
  today,                 \* the local calendar date new Date() shows
  page,                  \* how far the loading of the dashboard page has come
  server                 \* the Express server: its telemetry client and its last answer

vars == <<now, appInsights, faultsLeft, sessionId, sessionStartTime, pageViewCount,
          currentQuoteId, currentApplicationId, metrics, dom, status, emitted,
          called, raised, random, okCalls, stage, appCompleted, quoteAtStart,
          typedCoverage,
          userId, constructed, localStorage, storageThrows, today, page, server>>

funnel == <<currentQuoteId, currentApplicationId>>
history == <<okCalls, stage, appCompleted, quoteAtStart, typedCoverage>>
\* what no method of the manager writes: the session, the page and the server
session == <<appInsights, sessionId, sessionStartTime, userId, constructed, page, server>>
store == <<localStorage, storageThrows, today>>

\* ------------------------------------------------------------ identifiers
NULL == [prefix |-> "null", t |-> 0]
\* prefix + "_" + Date.now()
Id(prefix, t) == [prefix |-> prefix, t |-> t]
IsNull(id) == id = NULL

\* "session_" + Date.now() + "_" + random suffix
generateSessionId(t) == [prefix |-> "session", t |-> t]
\* "user_" + Date.now() + "_" + Math.random().toString(36).substr(2, 9)
generateUserId(t, r) == [prefix |-> "user", t |-> t, r |-> r]
\* the value of a field that was never assigned
UNDEFINED == [prefix |-> "undefined", t |-> 0, r |-> ""]

\* --------------------------------------------------------------- numbers
Num(n) == [isNaN |-> FALSE, v |-> n]
NaN == [isNaN |-> TRUE, v |-> 0]

DigitVal(c) == CASE c = "5" -> 5 [] c = "0" -> 0 [] OTHER -> 0

\* the longest prefix of s made of digits
RECURSIVE DigitPrefix(_)
DigitPrefix(s) ==
  IF s = <<>> \/ Head(s) \notin Digits THEN <<>>
  ELSE <<Head(s)>> \o DigitPrefix(Tail(s))

RECURSIVE Decimal(_)
Decimal(s) ==
  IF s = <<>> THEN 0 ELSE 10 * Decimal(SubSeq(s, 1, Len(s) - 1)) + DigitVal(s[Len(s)])

\* parseFloat: the number written by the longest numeric prefix, NaN if none
parseFloat(s) ==
  IF DigitPrefix(s) = <<>> THEN NaN ELSE Num(Decimal(DigitPrefix(s)))

\* a coverage amount handed on as parsed, without the || 0
OrZero_Missing(x) == x

\* x || 0 on a number: NaN and 0 are falsy
OrZero(x) == IF x.isNaN THEN Num(0) ELSE x

DecimalDigits == <<"0", "1", "2", "3", "4", "5", "6", "7", "8", "9">>

\* String(n), n.toString(): the decimal digits of a natural number
RECURSIVE String(_)
String(n) ==
  IF n < 10 THEN <<DecimalDigits[n + 1]>>
  ELSE String(n \div 10) \o <<DecimalDigits[(n % 10) + 1]>>

\* no padding at all
padStart_None(s, targetLength, padString) == s

\* s.padStart(targetLength, padString) for a one-character padString
RECURSIVE padStart(_, _, _)
padStart(s, targetLength, padString) ==
  IF Len(s) >= targetLength THEN s
  ELSE padStart(<<padString>> \o s, targetLength, padString)

\* the longest prefix of s made of decimal digits
RECURSIVE IntPrefix(_)
IntPrefix(s) ==
  IF s = <<>> \/ (\A i \in 1..10 : DecimalDigits[i] # Head(s)) THEN <<>>
  ELSE <<Head(s)>> \o IntPrefix(Tail(s))

RECURSIVE IntValue(_)
IntValue(s) ==
  IF s = <<>> THEN 0
  ELSE 10 * IntValue(SubSeq(s, 1, Len(s) - 1))
       + ((CHOOSE i \in 1..10 : DecimalDigits[i] = s[Len(s)]) - 1)

\* parseInt: the integer written by the longest prefix of digits, NaN if none
parseInt(s) == IF IntPrefix(s) = <<>> THEN NaN ELSE Num(IntValue(IntPrefix(s)))

\* new Date(t).toISOString() and new Date(iso).getTime(): the text keeps the
\* milliseconds, so the reading is recovered exactly; `date` is the local
\* calendar date of that instant, which new Date(iso) shows again
toISOString(t, date) == [iso |-> t, date |-> date]
getTime(isoDate) == isoDate.iso

\* a valid floating-point number, as <input type="number"> requires
IsValidNumber(s) == s # <<>> /\ \A i \in 1..Len(s) : s[i] \in Digits

\* value sanitization of <input type="text">: none
SanitizeText(raw) == raw

\* the coverage amount field declared as a text field
SanitizeNumber_AsText(raw) == raw

\* value sanitization of <input type="number">: anything else becomes ""
SanitizeNumber(raw) == IF IsValidNumber(raw) THEN raw ELSE <<>>

\* !x on a string: only the empty string is falsy
Empty(s) == s = ""
\* the same on the text of the coverage amount field
EmptyChars(s) == Len(s) = 0

\* ----------------------------------------------------------------- events
Event(name, props, meas) == [name |-> name, properties |-> props, measurements |-> meas]
NoMeas == [none |-> TRUE]

\* the template literal of a status message and the values interpolated in it
Status(message, args, type) == [message |-> message, args |-> args, type |-> type]
NoStatus == Status("", <<>>, "")

ZeroMetrics == [pageViews |-> 0, quoteRequests |-> 0, applicationsStarted |-> 0,
                applicationsCompleted |-> 0, policiesSold |-> 0]
Total(m) == m.pageViews + m.quoteRequests + m.applicationsStarted
            + m.applicationsCompleted + m.policiesSold

\* a counter stepped twice by one call
Increment_Twice(m, counter) == [m EXCEPT ![counter] = @ + 2]

\* this.metrics.<counter>++
Increment(m, counter) == [m EXCEPT ![counter] = @ + 1]

ZeroCalls == [submitQuoteRequest |-> 0, startApplication |-> 0,
              completeApplication |-> 0, purchasePolicy |-> 0, trackPageView |-> 0]

\* the page as served: empty form, the three journey buttons disabled, a time
\* on page of 0s
InitialDom ==
  [customerName |-> "", insuranceType |-> "", coverageAmount |-> <<>>,
   personalInfo |-> "", applicationId |-> NULL,
   startAppBtn |-> "disabled", completeAppBtn |-> "disabled", purchaseBtn |-> "disabled",
   timeOnPage |-> <<"0", "s">>]

\* ------------------------------------------------------------------- sink
\* The events of one call are handed to the sink one by one.  When the sink
\* throws at the failAt-th call, the events before it were handed over and the
\* rest of the method body is skipped.
Throws(evs, failAt) == appInsights /\ faultsLeft > 0 /\ failAt \in 1..Len(evs)
Handed(evs, failAt) ==
  IF ~appInsights THEN <<>>
  ELSE IF Throws(evs, failAt) THEN SubSeq(evs, 1, failAt - 1)
  ELSE evs

\* where the sink may throw within one call (0: nowhere)
FailPoints == IF faultsLeft > 0 THEN 0..3 ELSE {0}

\* a method body left by an exception: nothing after the throwing call runs
Thrown(evs, failAt) ==
  /\ emitted' = Handed(evs, failAt)
  /\ faultsLeft' = faultsLeft - 1
  /\ raised' = TRUE
  /\ status' = NoStatus

\* showStatus(message, type) at the end of a method body
showStatus(message, args, type) ==
  /\ status' = Status(message, args, type)
  /\ raised' = FALSE
  /\ UNCHANGED faultsLeft

\* an early return after showStatus(message, "error"): nothing else changes
Rejected(message) ==
  /\ showStatus(message, <<>>, "error")
  /\ emitted' = <<>>
  /\ UNCHANGED <<now, session, store, pageViewCount, funnel, metrics, dom, history>>

\* a constructor that gives up when window.appInsights is undefined
MetricsUndefined_WithoutSink == ~constructed \/ ~appInsights

\* this.metrics was never assigned: this.metrics.<counter>++ throws a TypeError
MetricsUndefined == ~constructed

\* a method body left by that TypeError, before any call of the sink
TypeError ==
  /\ emitted' = <<>>
  /\ raised' = TRUE
  /\ status' = NoStatus
  /\ UNCHANGED faultsLeft

\* <field>++ on a field of the manager; on an undefined field it leaves NaN,
\* which the model keeps as the field's placeholder value
PlusPlus(field) == IF constructed THEN field + 1 ELSE field

\* Date.now() - this.sessionStartTime: NaN when sessionStartTime was never assigned
SinceSessionStart == IF constructed THEN now - sessionStartTime ELSE NaN

\* this.pageViewCount read as a measurement: undefined or NaN when never assigned
PageViewsInSession == IF constructed THEN pageViewCount ELSE NaN

\* ------------------------------------------------------------ constructor
\* trackDeviceInfo, called by initializeTracking from the constructor
DeviceInfoEvent(sid) == Event("DeviceInfo", [sessionId |-> sid], NoMeas)

\* -------------------------------------------------------------- storage
EmptyStorage == [k \in StorageKeys |-> <<>>]
\* localStorage.getItem(key): <<>> stands for null
getItem(ls, key) == ls[key]
\* !value on what getItem returned
Absent(item) == Len(item) = 0
setItem(ls, key, value) == [ls EXCEPT ![key] = <<value>>]
\* a removal that clears the whole store, as localStorage.clear() does
removeItem_All(ls, key) == EmptyStorage
removeItem(ls, key) == [ls EXCEPT ![key] = <<>>]

\* a lookup that generates a new identifier although one is stored
getOrCreateUserId_AlwaysNew(ls, t, r) ==
  [userId |-> generateUserId(t, r),
   storage |-> setItem(ls, "app_insights_user_id", generateUserId(t, r))]

\* getOrCreateUserId: the value it returns and the storage it leaves
getOrCreateUserId(ls, t, r) ==
  IF Absent(getItem(ls, "app_insights_user_id"))
  THEN [userId |-> generateUserId(t, r),
        storage |-> setItem(ls, "app_insights_user_id", generateUserId(t, r))]
  ELSE [userId |-> getItem(ls, "app_insights_user_id")[1], storage |-> ls]

\* The loading of the dashboard page (index.html).  Its inline script installs
\* the SDK stub as window.appInsights and starts fetch('/api/config'); then
\* js/analytics.js is executed, which declares analyticsManager and the onclick
\* handlers and registers the DOMContentLoaded listener.
\*   script            js/analytics.js has been executed
\*   fetch             "pending", or how fetch('/api/config') ended
\*   initTimer         the setTimeout(..., 500) that calls initializeAnalytics
\*   pageViewTimer     the setTimeout(..., 1000) set by initializeAnalytics
\*   domContentLoaded  the DOMContentLoaded event has been dispatched
\*   analyticsManager  the global analyticsManager has been assigned
PageLoading ==
  [script |-> FALSE, fetch |-> "pending", initTimer |-> "none", pageViewTimer |-> "none",
   domContentLoaded |-> FALSE, analyticsManager |-> FALSE]

\* the page after initializeAnalytics has assigned analyticsManager
PageLoaded ==
  [script |-> TRUE, fetch |-> "configured", initTimer |-> "fired", pageViewTimer |-> "pending",
   domContentLoaded |-> TRUE, analyticsManager |-> TRUE]

\* The Express server (server/server.js).  app.use and app.get register the
\* handlers in this order; a request runs through them until one answers.
Middlewares ==
  <<"express.json", "express.urlencoded", "express.static", "requestTracking", "routes">>

\* the files below the directory express.static serves (the repository root)
StaticFiles == {"/index.html", "/js/analytics.js"}
\* the paths with an app.get route
GetRoutes == {"/", "/api/performance", "/api/health"}
\* the paths of the GET requests sent to the server
Paths == StaticFiles \cup GetRoutes \cup {"/favicon.ico"}

\* express.static answers a file it finds, and a directory by its index.html
StaticAnswers(path) == path \in StaticFiles \/ path = "/"

\* the events the route of a path tracks before it answers
RouteEvents(path) ==
  IF path = "/" THEN <<"HomePageAccess">>
  ELSE IF path = "/api/health" THEN <<"HealthCheck">>
  ELSE <<>>

\* what the "finish" listener of the request tracking middleware tracks
FinishEvents(tracked) == IF tracked THEN <<"request", "ServerResponseTime">> ELSE <<>>

\* the answer to GET path: the handler that answered and the telemetry the
\* client was given; `tracked` says the tracking middleware has been passed
RECURSIVE Answer(_, _, _)
Answer(chain, path, tracked) ==
  IF chain = <<>>
  THEN [answeredBy |-> "notFound", events |-> FinishEvents(tracked)]
  ELSE IF Head(chain) = "express.static" /\ StaticAnswers(path)
  THEN [answeredBy |-> "express.static", events |-> FinishEvents(tracked)]
  ELSE IF Head(chain) = "routes" /\ path \in GetRoutes
  THEN [answeredBy |-> "routes", events |-> RouteEvents(path) \o FinishEvents(tracked)]
  ELSE Answer(Tail(chain), path, tracked \/ Head(chain) = "requestTracking")

\* the server after app.listen, before any request
ServerStarted(client) ==
  [client |-> client, path |-> "", answeredBy |-> "", events |-> <<>>]

\* the server answers GET path; without a client nothing is tracked
HttpGet ==
  \E path \in Paths :
    LET answer == Answer(Middlewares, path, FALSE)
    IN
    /\ server' = [client |-> server.client, path |-> path, answeredBy |-> answer.answeredBy,
                  events |-> IF server.client THEN answer.events ELSE <<>>]
    /\ called' = "none"
    /\ random' = NoDraw
    /\ status' = NoStatus
    /\ emitted' = <<>>
    /\ raised' = FALSE
    /\ UNCHANGED <<now, appInsights, sessionId, sessionStartTime, userId, constructed, page,
                   store, faultsLeft, pageViewCount, funnel, metrics, dom, okCalls, stage,
                   appCompleted, quoteAtStart, typedCoverage>>

\* the state the constructor leaves: a page opened at clock reading 0 on the
\* date `date` over the storage ls, the identifier drawing r if it is generated
Constructed(sink, faults, ls, throws, r, date) ==
  /\ now = 0
  /\ appInsights = sink
  /\ faultsLeft = faults
  /\ sessionId = generateSessionId(0)
  /\ storageThrows = throws
  /\ today = date
  /\ page = PageLoaded
  /\ server = ServerStarted(TRUE)
  /\ IF throws
     THEN \* getOrCreateUserId throws, the catch block logs: nothing else is assigned
          /\ constructed = FALSE
          /\ userId = UNDEFINED
          /\ localStorage = ls
          /\ emitted = <<>>
     ELSE /\ constructed = TRUE
          /\ userId = getOrCreateUserId(ls, 0, r).userId
          /\ localStorage = getOrCreateUserId(ls, 0, r).storage
          /\ emitted = Handed(<<DeviceInfoEvent(generateSessionId(0))>>, 0)
  /\ sessionStartTime = 0
  /\ pageViewCount = 0
  /\ currentQuoteId = NULL
  /\ currentApplicationId = NULL
  /\ metrics = ZeroMetrics
  /\ dom = InitialDom
  /\ status = NoStatus
  /\ called = "constructor"
  /\ random = NoDraw
  /\ raised = FALSE
  /\ okCalls = ZeroCalls
  /\ stage = "Idle"
  /\ appCompleted = FALSE
  /\ quoteAtStart = NULL
  /\ typedCoverage = <<>>

\* a first visit to the dashboard page: the SDK snippet of the page has defined
\* window.appInsights before the manager is constructed; the sink never throws
Init == Constructed(TRUE, 0, EmptyStorage, FALSE, "k3j9x2m1q", OpeningDate)

\* a session on a page where window.appInsights is undefined
InitNoSink == Constructed(FALSE, 0, EmptyStorage, FALSE, "k3j9x2m1q", OpeningDate)

\* a session whose sink is present and throws in up to MaxThrows of its calls
InitSinkFailure == Constructed(TRUE, MaxThrows, EmptyStorage, FALSE, "k3j9x2m1q", OpeningDate)

\* a first visit with any draw of the identifier
InitStore == \E r \in Randoms : Constructed(TRUE, 0, EmptyStorage, FALSE, r, OpeningDate)

\* a first visit in a browser whose localStorage throws on every access
InitStorageFailure == Constructed(TRUE, 0, EmptyStorage, TRUE, "k3j9x2m1q", OpeningDate)

\* a first visit on any of the dates
InitAnyDate ==
  \E y \in Years, m \in Months, d \in Days :
    Constructed(TRUE, 0, EmptyStorage, FALSE, "k3j9x2m1q", [year |-> y, month |-> m, day |-> d])

\* ------------------------------------------------------------ environment
\* a step that calls no method of the manager
NoCall ==
  /\ called' = "none"
  /\ random' = NoDraw
  /\ status' = NoStatus
  /\ emitted' = <<>>
  /\ raised' = FALSE

\* the Gregorian calendar new Date() counts in; months count from 0
IsLeapYear(year) == (year % 4 = 0 /\ year % 100 # 0) \/ year % 400 = 0
DaysInMonth(year, month) ==
  IF month = 1 THEN (IF IsLeapYear(year) THEN 29 ELSE 28)
  ELSE IF month \in {3, 5, 8, 10} THEN 30
  ELSE 31
NextDay(date) ==
  IF date.day < DaysInMonth(date.year, date.month)
  THEN [date EXCEPT !.day = date.day + 1]
  ELSE IF date.month < 11
  THEN [year |-> date.year, month |-> date.month + 1, day |-> 1]
  ELSE [year |-> date.year + 1, month |-> 0, day |-> 1]

\* time passes
Tick ==
  /\ now < MaxTime
  /\ now' = now + 1
  /\ NoCall
  /\ UNCHANGED <<session, store, faultsLeft, pageViewCount, funnel, metrics, dom, history>>

\* the page stays open while the user is away for a day, or for a day less
\* one millisecond; the calendar date follows
Away ==
  \E d \in {MsPerDay - 1, MsPerDay} :
    \E date \in (IF d = MsPerDay THEN {NextDay(today)} ELSE {today, NextDay(today)}) :
      /\ now < MaxAway * MsPerDay
      /\ now' = now + d
      /\ today' = date
      /\ NoCall
      /\ UNCHANGED <<session, localStorage, storageThrows, faultsLeft, pageViewCount, funnel,
                     metrics, dom, history>>

\* milliseconds between two runs of the callback of startSessionTimer
TimerInterval == 5000

\* the page stays open for one interval of the timer
Wait ==
  /\ now < MaxWait * TimerInterval
  /\ now' = now + TimerInterval
  /\ NoCall
  /\ UNCHANGED <<session, store, faultsLeft, pageViewCount, funnel, metrics, dom, history>>

\* a timer callback that restarts the session clock
TimerTick_Restarting ==
  /\ constructed
  /\ now - sessionStartTime >= TimerInterval
  /\ sessionStartTime' = now
  /\ dom' = [dom EXCEPT !.timeOnPage = <<"0", "s">>]
  /\ called' = "startSessionTimer"
  /\ random' = NoDraw
  /\ emitted' = <<>>
  /\ status' = NoStatus
  /\ raised' = FALSE
  /\ UNCHANGED <<now, appInsights, sessionId, userId, constructed, page, server, store,
                 faultsLeft, pageViewCount, funnel, metrics, history>>

\* the callback startSessionTimer registered with setInterval runs: it writes
\* the whole seconds since the session started into the timeOnPage element
TimerTick ==
  /\ constructed
  /\ now - sessionStartTime >= TimerInterval
  /\ dom' = [dom EXCEPT !.timeOnPage =
                 String((now - sessionStartTime) \div MsPerSecond) \o <<"s">>]
  /\ called' = "startSessionTimer"
  /\ random' = NoDraw
  /\ emitted' = <<>>
  /\ status' = NoStatus
  /\ raised' = FALSE
  /\ UNCHANGED <<now, session, store, faultsLeft, pageViewCount, funnel, metrics, history>>

\* the user edits one field of the quote or application form
EditForm ==
  /\ \/ \E v \in CustomerNames :
          /\ dom' = [dom EXCEPT !.customerName = SanitizeText(v)]
          /\ UNCHANGED typedCoverage
     \/ \E v \in InsuranceTypes :
          /\ dom' = [dom EXCEPT !.insuranceType = v]
          /\ UNCHANGED typedCoverage
     \/ \E raw \in RawInputs :
          /\ dom' = [dom EXCEPT !.coverageAmount = SanitizeNumber(raw)]
          /\ typedCoverage' = raw
     \/ \E v \in PersonalInfos :
          /\ dom' = [dom EXCEPT !.personalInfo = SanitizeText(v)]
          /\ UNCHANGED typedCoverage
  /\ NoCall
  /\ UNCHANGED <<now, session, store, faultsLeft, pageViewCount, funnel, metrics,
                 okCalls, stage, appCompleted, quoteAtStart>>

\* the user fills in the whole quote and application form with valid entries
FillForm ==
  /\ dom' = [dom EXCEPT !.customerName = SanitizeText("Alice"),
                        !.insuranceType = "auto",
                        !.coverageAmount = SanitizeNumber(<<"5">>),
                        !.personalInfo = SanitizeText("Alice Smith")]
  /\ typedCoverage' = <<"5">>
  /\ NoCall
  /\ UNCHANGED <<now, session, store, faultsLeft, pageViewCount, funnel, metrics,
                 okCalls, stage, appCompleted, quoteAtStart>>

\* ------------------------------------------------------- purchase journey
QuoteRequestedEvent(quoteId, insuranceType, coverageAmount) ==
  Event("QuoteRequested",
        [quoteId |-> quoteId, insuranceType |-> insuranceType, sessionId |-> sessionId],
        [coverageAmount |-> parseFloat(coverageAmount)])

\* a validation that looks at the customer name only
QuoteFormIncomplete_NameOnly(customerName, insuranceType, coverageAmount) ==
  Empty(customerName)

\* !customerName || !insuranceType || !coverageAmount
QuoteFormIncomplete(customerName, insuranceType, coverageAmount) ==
  Empty(customerName) \/ Empty(insuranceType) \/ EmptyChars(coverageAmount)

submitQuoteRequest ==
  \E failAt \in FailPoints :
    LET customerName == dom.customerName
        insuranceType == dom.insuranceType
        coverageAmount == dom.coverageAmount
        quoteId == Id("quote", now)
        evs == <<QuoteRequestedEvent(quoteId, insuranceType, coverageAmount)>>
    IN
    /\ called' = "submitQuoteRequest"
    /\ random' = NoDraw
    /\ IF QuoteFormIncomplete(customerName, insuranceType, coverageAmount)
       THEN Rejected("Please fill in all fields")
       ELSE
         /\ Total(metrics) < MaxOps
         /\ currentQuoteId' = quoteId
         /\ metrics' = IF MetricsUndefined THEN metrics ELSE Increment(metrics, "quoteRequests")
         /\ IF MetricsUndefined \/ Throws(evs, failAt)
            THEN /\ IF MetricsUndefined THEN TypeError ELSE Thrown(evs, failAt)
                 /\ UNCHANGED <<dom, history>>
            ELSE /\ emitted' = Handed(evs, failAt)
                 /\ dom' = [dom EXCEPT !.applicationId = quoteId,
                                       !.startAppBtn = "enabled"]
                 /\ showStatus("Quote request submitted: ", <<quoteId>>, "success")
                 /\ okCalls' = [okCalls EXCEPT !.submitQuoteRequest = @ + 1]
                 /\ stage' = "QuoteRequested"
                 /\ UNCHANGED <<appCompleted, quoteAtStart, typedCoverage>>
         /\ UNCHANGED <<now, session, store, pageViewCount, currentApplicationId>>

ApplicationStartedEvent(applicationId, quoteId) ==
  Event("ApplicationStarted",
        [applicationId |-> applicationId, quoteId |-> quoteId, sessionId |-> sessionId],
        NoMeas)

\* a funnel step event that names the application instead of the quote
FunnelStepEvent_ByApplication(step, funnelId) ==
  [name |-> "FunnelStep",
   properties |-> [step |-> step, funnelId |-> currentApplicationId, sessionId |-> sessionId],
   measurements |-> NoMeas]

FunnelStepEvent(step, funnelId) ==
  Event("FunnelStep", [step |-> step, funnelId |-> funnelId, sessionId |-> sessionId], NoMeas)

\* startApplication without its check of the quote
QuoteMissing_Unchecked == FALSE

\* !this.currentQuoteId
QuoteMissing == IsNull(currentQuoteId)

startApplication ==
  \E failAt \in FailPoints :
    LET applicationId == Id("app", now)
        evs == <<ApplicationStartedEvent(applicationId, currentQuoteId),
                 FunnelStepEvent("application_started", currentQuoteId)>>
    IN
    /\ called' = "startApplication"
    /\ random' = NoDraw
    /\ IF QuoteMissing
       THEN Rejected("Please request a quote first")
       ELSE
         /\ Total(metrics) < MaxOps
         /\ currentApplicationId' = applicationId
         /\ metrics' = IF MetricsUndefined THEN metrics ELSE Increment(metrics, "applicationsStarted")
         /\ IF MetricsUndefined \/ Throws(evs, failAt)
            THEN /\ IF MetricsUndefined THEN TypeError ELSE Thrown(evs, failAt)
                 /\ UNCHANGED <<dom, okCalls, stage>>
            ELSE /\ emitted' = Handed(evs, failAt)
                 /\ dom' = [dom EXCEPT !.completeAppBtn = "enabled"]
                 /\ showStatus("Application started successfully", <<>>, "success")
                 /\ okCalls' = [okCalls EXCEPT !.startApplication = @ + 1]
                 /\ stage' = "ApplicationStarted"
         /\ appCompleted' = FALSE
         /\ quoteAtStart' = currentQuoteId
         /\ UNCHANGED <<now, session, store, pageViewCount, currentQuoteId, typedCoverage>>

ApplicationCompletedEvent(applicationId, quoteId, timeToComplete) ==
  Event("ApplicationCompleted",
        [applicationId |-> applicationId, quoteId |-> quoteId, sessionId |-> sessionId],
        [timeToCompleteMs |-> timeToComplete])

\* completeApplication and purchasePolicy without their check of the application
ApplicationMissing_Unchecked == FALSE

\* !this.currentApplicationId
ApplicationMissing == IsNull(currentApplicationId)

\* completeApplication without its check of the personal information
PersonalInfoMissing_Unchecked(personalInfo) == FALSE

\* !personalInfo
PersonalInfoMissing(personalInfo) == Empty(personalInfo)

completeApplication ==
  \E failAt \in FailPoints :
    LET personalInfo == dom.personalInfo
        evs == <<ApplicationCompletedEvent(currentApplicationId, currentQuoteId,
                                           SinceSessionStart),
                 FunnelStepEvent("application_completed", currentQuoteId)>>
    IN
    /\ called' = "completeApplication"
    /\ random' = NoDraw
    /\ IF ApplicationMissing
       THEN Rejected("Please start an application first")
       ELSE IF PersonalInfoMissing(personalInfo)
       THEN Rejected("Please fill in personal information")
       ELSE
         /\ Total(metrics) < MaxOps
         /\ metrics' = IF MetricsUndefined THEN metrics ELSE Increment(metrics, "applicationsCompleted")
         /\ IF MetricsUndefined \/ Throws(evs, failAt)
            THEN /\ IF MetricsUndefined THEN TypeError ELSE Thrown(evs, failAt)
                 /\ UNCHANGED <<dom, history>>
            ELSE /\ emitted' = Handed(evs, failAt)
                 /\ dom' = [dom EXCEPT !.purchaseBtn = "enabled"]
                 /\ showStatus("Application completed successfully", <<>>, "success")
                 /\ okCalls' = [okCalls EXCEPT !.completeApplication = @ + 1]
                 /\ stage' = "ApplicationCompleted"
                 /\ appCompleted' = TRUE
                 /\ UNCHANGED quoteAtStart
                 /\ UNCHANGED typedCoverage
         /\ UNCHANGED <<now, session, store, pageViewCount, funnel>>

ResetPage ==
  [dom EXCEPT !.customerName = "", !.insuranceType = "",
              !.coverageAmount = <<>>, !.applicationId = NULL,
              !.personalInfo = "", !.startAppBtn = "disabled",
              !.completeAppBtn = "disabled", !.purchaseBtn = "disabled"]

\* a reset that forgets this.currentQuoteId
resetPurchaseJourney_KeepsQuote ==
  /\ currentApplicationId' = NULL
  /\ dom' = ResetPage
  /\ typedCoverage' = <<>>
  /\ UNCHANGED currentQuoteId

\* a reset that forgets this.currentApplicationId
resetPurchaseJourney_KeepsApplication ==
  /\ currentQuoteId' = NULL
  /\ dom' = ResetPage
  /\ typedCoverage' = <<>>
  /\ UNCHANGED currentApplicationId

resetPurchaseJourney ==
  /\ currentQuoteId' = NULL
  /\ currentApplicationId' = NULL
  /\ dom' = ResetPage
  /\ typedCoverage' = <<>>

PolicyPurchasedEvent(policyId, applicationId, quoteId, timeToConvert) ==
  Event("PolicyPurchased",
        [policyId |-> policyId, applicationId |-> applicationId, quoteId |-> quoteId,
         sessionId |-> sessionId],
        [timeToConvertMs |-> timeToConvert])

\* a conversion event built after the journey was reset
ConversionEvent_AfterReset(funnelId, coverageAmount) ==
  [name |-> "Conversion",
   properties |-> [conversionType |-> "policy_purchase", funnelId |-> NULL,
                   sessionId |-> sessionId],
   measurements |-> [conversionValue |-> OrZero(parseFloat(coverageAmount))]]

ConversionEvent(funnelId, coverageAmount) ==
  Event("Conversion",
        [conversionType |-> "policy_purchase", funnelId |-> funnelId, sessionId |-> sessionId],
        [conversionValue |-> OrZero(parseFloat(coverageAmount))])

purchasePolicy ==
  \E failAt \in FailPoints :
    LET policyId == Id("policy", now)
        evs == <<PolicyPurchasedEvent(policyId, currentApplicationId, currentQuoteId,
                                      SinceSessionStart),
                 ConversionEvent(currentQuoteId, dom.coverageAmount),
                 FunnelStepEvent("purchase_completed", currentQuoteId)>>
    IN
    /\ called' = "purchasePolicy"
    /\ random' = NoDraw
    /\ IF ApplicationMissing
       THEN Rejected("Please complete an application first")
       ELSE
         /\ Total(metrics) < MaxOps
         /\ metrics' = IF MetricsUndefined THEN metrics ELSE Increment(metrics, "policiesSold")
         /\ IF MetricsUndefined \/ Throws(evs, failAt)
            THEN /\ IF MetricsUndefined THEN TypeError ELSE Thrown(evs, failAt)
                 /\ UNCHANGED <<dom, funnel, history>>
            ELSE /\ emitted' = Handed(evs, failAt)
                 /\ resetPurchaseJourney
                 /\ showStatus("Policy purchased successfully: ", <<policyId>>, "success")
                 /\ okCalls' = [okCalls EXCEPT !.purchasePolicy = @ + 1]
                 /\ stage' = "Idle"
                 /\ appCompleted' = FALSE
                 /\ quoteAtStart' = NULL
         /\ UNCHANGED <<now, session, store, pageViewCount>>

\* ------------------------------------------------------------ web metrics
\* a page view event that is always flagged as the first of its session
PageViewEvent_AlwaysFirst(pageName, pageNumber, duration) ==
  [name |-> "PageView",
   properties |-> [name |-> pageName, sessionId |-> sessionId, pageNumber |-> pageNumber,
                   isFirstView |-> TRUE],
   measurements |-> [timeOnPage |-> duration]]

PageViewEvent(pageName, pageNumber, duration) ==
  Event("PageView",
        [name |-> pageName, sessionId |-> sessionId, pageNumber |-> pageNumber,
         isFirstView |-> (pageNumber = 1)],
        [timeOnPage |-> duration])

trackPageView ==
  \E failAt \in FailPoints, pageName \in {"Home", "HomePage"} :
    LET evs == <<PageViewEvent(pageName, pageViewCount + 1, SinceSessionStart)>>
    IN
    /\ called' = "trackPageView"
    /\ random' = NoDraw
    /\ Total(metrics) < MaxOps
    /\ pageViewCount' = PlusPlus(pageViewCount)
    /\ metrics' = IF MetricsUndefined THEN metrics ELSE Increment(metrics, "pageViews")
    /\ IF MetricsUndefined \/ Throws(evs, failAt)
       THEN /\ IF MetricsUndefined THEN TypeError ELSE Thrown(evs, failAt)
            /\ UNCHANGED okCalls
       ELSE /\ emitted' = Handed(evs, failAt)
            /\ showStatus("Page view tracked: ", <<pageName>>, "success")
            /\ okCalls' = [okCalls EXCEPT !.trackPageView = @ + 1]
    /\ UNCHANGED <<now, session, store, funnel, dom, stage, appCompleted,
                 quoteAtStart, typedCoverage>>

\* a bounce that counts itself as a page view
BounceEvent_CountsItself(timeOnPage, pageViews) ==
  Event("BounceEvent",
        [exitReason |-> "immediate_exit", sessionId |-> sessionId],
        [timeOnPageMs |-> timeOnPage, pageViewsInSession |-> pageViews + 1])

BounceEvent(timeOnPage, pageViews) ==
  Event("BounceEvent",
        [exitReason |-> "immediate_exit", sessionId |-> sessionId],
        [timeOnPageMs |-> timeOnPage, pageViewsInSession |-> pageViews])

simulateBounce ==
  \E failAt \in FailPoints :
    LET evs == <<BounceEvent(SinceSessionStart, PageViewsInSession)>>
    IN
    /\ called' = "simulateBounce"
    /\ random' = NoDraw
    /\ IF Throws(evs, failAt)
       THEN Thrown(evs, failAt)
       ELSE /\ emitted' = Handed(evs, failAt)
            /\ showStatus("Bounce event tracked (user left immediately)", <<>>, "error")
    /\ UNCHANGED <<now, session, store, pageViewCount, funnel, metrics, dom, history>>

\* a method body that ends without calling showStatus
Returned ==
  /\ status' = NoStatus
  /\ raised' = FALSE
  /\ UNCHANGED faultsLeft

\* Math.floor(x / d): NaN stays NaN
Floor(x, d) == IF constructed THEN x \div d ELSE NaN

TimeOnPageMetric(timeOnPage) ==
  Event("TimeOnPage", [sessionId |-> sessionId, pageName |-> "Home"], [value |-> timeOnPage])

trackTimeOnPage ==
  \E failAt \in FailPoints :
    LET timeOnPage == SinceSessionStart
        evs == <<TimeOnPageMetric(timeOnPage)>>
    IN
    /\ called' = "trackTimeOnPage"
    /\ random' = NoDraw
    /\ IF Throws(evs, failAt)
       THEN Thrown(evs, failAt)
       ELSE /\ emitted' = Handed(evs, failAt)
            /\ showStatus("Time on page tracked: seconds", <<Floor(timeOnPage, MsPerSecond)>>,
                          "success")
    /\ UNCHANGED <<now, session, store, pageViewCount, funnel, metrics, dom, history>>

\* ------------------------------------------------------------ experiments
ABTestEvent(name, variant) ==
  Event(name, [testName |-> "homepage_cta_test", variant |-> variant, sessionId |-> sessionId],
        NoMeas)

\* variant === "variant_a" ? 0.15 : 0.22, in hundredths
conversionRate(variant) == IF variant = "variant_a" THEN RateVariantA ELSE RateOtherwise

\* a comparison that lets a draw equal to the rate convert
converted_AtOrBelow(variant, draw) == draw <= conversionRate(variant)

\* a conversion that consults the outcome of an earlier step
converted_Remembering(variant, draw) ==
  draw < conversionRate(variant) \/ pageViewCount > 0

\* Math.random() < conversionRate, the draw in hundredths
converted(variant, draw) == draw < conversionRate(variant)

runABTest ==
  \E failAt \in FailPoints, variant \in Variants, draw \in Draws :
    LET evs == IF converted(variant, draw)
               THEN <<ABTestEvent("ABTestParticipation", variant),
                      ABTestEvent("ABTestConversion", variant)>>
               ELSE <<ABTestEvent("ABTestParticipation", variant)>>
    IN
    /\ called' = "runABTest"
    /\ random' = draw
    /\ IF Throws(evs, failAt)
       THEN Thrown(evs, failAt)
       ELSE /\ emitted' = Handed(evs, failAt)
            /\ Returned
    /\ UNCHANGED <<now, session, store, pageViewCount, funnel, metrics, dom, history>>

\* ------------------------------------------------------------ performance
PageLoadTimeMetric(loadTime) ==
  Event("PageLoadTime", [pageName |-> "Home", sessionId |-> sessionId], [value |-> loadTime])

\* the argument of trackPageViewPerformance: it carries no sessionId
PageViewPerformance(loadTime) ==
  Event("PageViewPerformance",
        [name |-> "HomePage"],
        [duration |-> loadTime, perfTotal |-> loadTime,
         networkConnect |-> (loadTime * 1) \div 10, sentRequest |-> (loadTime * 2) \div 10,
         receivedResponse |-> (loadTime * 3) \div 10, domProcessing |-> (loadTime * 4) \div 10])

measurePageLoad ==
  \E failAt \in FailPoints, loadTime \in LoadTimes :
    LET evs == <<PageLoadTimeMetric(loadTime), PageViewPerformance(loadTime)>>
    IN
    /\ called' = "measurePageLoad"
    /\ random' = NoDraw
    /\ IF Throws(evs, failAt)
       THEN Thrown(evs, failAt)
       ELSE /\ emitted' = Handed(evs, failAt)
            /\ showStatus("Page load time measured: ms", <<loadTime>>, "success")
    /\ UNCHANGED <<now, session, store, pageViewCount, funnel, metrics, dom, history>>

ExceptionEvent ==
  Event("Exception",
        [errorType |-> "simulated_client_error", sessionId |-> sessionId, isSimulated |-> TRUE],
        NoMeas)

simulateError ==
  \E failAt \in FailPoints :
    LET evs == <<ExceptionEvent>>
    IN
    /\ called' = "simulateError"
    /\ random' = NoDraw
    /\ IF Throws(evs, failAt)
       THEN Thrown(evs, failAt)
       ELSE /\ emitted' = Handed(evs, failAt)
            /\ showStatus("Error simulation tracked in Application Insights", <<>>, "error")
    /\ UNCHANGED <<now, session, store, pageViewCount, funnel, metrics, dom, history>>

\* ----------------------------------------------------------- segmentation
\* a device report that starts a new session
trackDeviceInfo_NewSession ==
  \E failAt \in FailPoints :
    LET evs == <<DeviceInfoEvent(sessionId)>>
    IN
    /\ called' = "trackDeviceInfo"
    /\ random' = NoDraw
    /\ IF Throws(evs, failAt)
       THEN Thrown(evs, failAt)
       ELSE /\ emitted' = Handed(evs, failAt)
            /\ Returned
    /\ sessionId' = generateSessionId(now + 1)
    /\ UNCHANGED <<now, appInsights, sessionStartTime, userId, constructed, page, server, store,
                   pageViewCount, funnel, metrics, dom, history>>

trackDeviceInfo ==
  \E failAt \in FailPoints :
    LET evs == <<DeviceInfoEvent(sessionId)>>
    IN
    /\ called' = "trackDeviceInfo"
    /\ random' = NoDraw
    /\ IF Throws(evs, failAt)
       THEN Thrown(evs, failAt)
       ELSE /\ emitted' = Handed(evs, failAt)
            /\ Returned
    /\ UNCHANGED <<now, session, store, pageViewCount, funnel, metrics, dom, history>>

UserSegmentationEvent(segment) ==
  Event("UserSegmentation",
        [segment |-> segment, sessionId |-> sessionId,
         assignmentReason |-> "behavioral_analysis"],
        NoMeas)

trackCustomSegment ==
  \E failAt \in FailPoints, randomSegment \in segments :
    LET evs == <<UserSegmentationEvent(randomSegment)>>
    IN
    /\ called' = "trackCustomSegment"
    /\ random' = NoDraw
    /\ IF Throws(evs, failAt)
       THEN Thrown(evs, failAt)
       ELSE /\ emitted' = Handed(evs, failAt)
            /\ showStatus("User assigned to segment: ", <<randomSegment>>, "success")
    /\ UNCHANGED <<now, session, store, pageViewCount, funnel, metrics, dom, history>>

\* --------------------------------------------------------------- visitors
\* a method body left by an exception of localStorage, before any call of the sink
StorageException ==
  /\ emitted' = <<>>
  /\ raised' = TRUE
  /\ status' = NoStatus
  /\ UNCHANGED faultsLeft

\* the page is loaded again over the same localStorage: a new manager is
\* constructed.  The page constructs it 500 ms after its configuration arrived,
\* so the clock has advanced since the last step of the session before.
\* a page load that keeps the funnel and the counters of the manager before it
Reload_SameFunnel ==
  \E r \in Randoms :
    LET t == now + 1
        made == getOrCreateUserId(localStorage, t, r)
    IN
    /\ now < MaxTime
    /\ ~storageThrows
    /\ now' = t
    /\ called' = "constructor"
    /\ random' = NoDraw
    /\ sessionId' = generateSessionId(t)
    /\ constructed' = TRUE
    /\ userId' = made.userId
    /\ localStorage' = made.storage
    /\ emitted' = IF appInsights THEN <<DeviceInfoEvent(generateSessionId(t))>> ELSE <<>>
    /\ sessionStartTime' = t
    /\ pageViewCount' = 0
    /\ status' = NoStatus
    /\ raised' = FALSE
    /\ UNCHANGED <<funnel, metrics, dom, history>>
    /\ UNCHANGED <<appInsights, faultsLeft, storageThrows, today, page, server>>

Reload ==
  \E r \in Randoms :
    LET t == now + 1
        made == getOrCreateUserId(localStorage, t, r)
    IN
    /\ now < MaxTime
    /\ now' = t
    /\ called' = "constructor"
    /\ random' = NoDraw
    /\ sessionId' = generateSessionId(t)
    /\ IF storageThrows
       THEN /\ constructed' = FALSE
            /\ userId' = UNDEFINED
            /\ emitted' = <<>>
            /\ UNCHANGED localStorage
       ELSE /\ constructed' = TRUE
            /\ userId' = made.userId
            /\ localStorage' = made.storage
            /\ emitted' = IF appInsights THEN <<DeviceInfoEvent(generateSessionId(t))>> ELSE <<>>
    /\ sessionStartTime' = t
    /\ pageViewCount' = 0
    /\ currentQuoteId' = NULL
    /\ currentApplicationId' = NULL
    /\ metrics' = ZeroMetrics
    /\ dom' = InitialDom
    /\ status' = NoStatus
    /\ raised' = FALSE
    /\ okCalls' = ZeroCalls
    /\ stage' = "Idle"
    /\ appCompleted' = FALSE
    /\ quoteAtStart' = NULL
    /\ typedCoverage' = <<>>
    /\ UNCHANGED <<appInsights, faultsLeft, storageThrows, today, page, server>>

NewVisitorAcquisitionEvent ==
  Event("NewVisitorAcquisition",
        [visitorType |-> "new", trafficSource |-> "organic", sessionId |-> sessionId],
        NoMeas)

\* a simulation that also gives the running manager a new user id
simulateNewVisitor_NewIdentity ==
  \E r \in Randoms :
    /\ ~storageThrows /\ faultsLeft = 0
    /\ called' = "simulateNewVisitor"
    /\ random' = NoDraw
    /\ localStorage' = setItem(removeItem(removeItem(localStorage, "app_insights_user_id"),
                                          "visitor_type"), "visitor_type", "new")
    /\ userId' = generateUserId(now + 1, r)
    /\ emitted' = Handed(<<NewVisitorAcquisitionEvent>>, 0)
    /\ showStatus("New visitor simulation tracked", <<>>, "success")
    /\ UNCHANGED <<now, appInsights, sessionId, sessionStartTime, constructed, page, server,
                   storageThrows, today, pageViewCount, funnel, metrics, dom, history>>

simulateNewVisitor ==
  \E failAt \in FailPoints :
    LET evs == <<NewVisitorAcquisitionEvent>>
        cleared == removeItem(removeItem(localStorage, "app_insights_user_id"), "visitor_type")
    IN
    /\ called' = "simulateNewVisitor"
    /\ random' = NoDraw
    /\ IF storageThrows
       THEN /\ StorageException
            /\ UNCHANGED localStorage
       ELSE /\ localStorage' = setItem(cleared, "visitor_type", "new")
            /\ IF Throws(evs, failAt)
               THEN Thrown(evs, failAt)
               ELSE /\ emitted' = Handed(evs, failAt)
                    /\ showStatus("New visitor simulation tracked", <<>>, "success")
    /\ UNCHANGED <<now, session, storageThrows, today, pageViewCount, funnel, metrics, dom,
                   history>>

ReturningVisitorEngagementEvent(daysSinceLastVisit) ==
  Event("ReturningVisitorEngagement",
        [visitorType |-> "returning", sessionId |-> sessionId],
        [daysSinceLastVisit |-> daysSinceLastVisit])

\* days counted by rounding up
daysSinceLastVisit_RoundedUp(lastVisit, t) ==
  IF Absent(lastVisit) THEN 0
  ELSE IF parseInt(lastVisit[1]).isNaN THEN NaN
  ELSE (t - parseInt(lastVisit[1]).v + MsPerDay - 1) \div MsPerDay

\* lastVisit ? Math.floor((Date.now() - parseInt(lastVisit)) / MsPerDay) : 0
daysSinceLastVisit(lastVisit, t) ==
  IF Absent(lastVisit) THEN 0
  ELSE IF parseInt(lastVisit[1]).isNaN THEN NaN
  ELSE (t - parseInt(lastVisit[1]).v) \div MsPerDay

simulateReturningVisitor ==
  \E failAt \in FailPoints :
    LET days == daysSinceLastVisit(getItem(localStorage, "last_visit"), now)
        evs == <<ReturningVisitorEngagementEvent(days)>>
        marked == setItem(localStorage, "visitor_type", "returning")
    IN
    /\ called' = "simulateReturningVisitor"
    /\ random' = NoDraw
    /\ IF storageThrows
       THEN /\ StorageException
            /\ UNCHANGED localStorage
       ELSE IF Throws(evs, failAt)
       THEN /\ Thrown(evs, failAt)
            /\ localStorage' = marked
       ELSE /\ emitted' = Handed(evs, failAt)
            /\ localStorage' = setItem(marked, "last_visit", String(now))
            /\ showStatus("Returning visitor tracked ( days since last visit)", <<days>>,
                          "success")
    /\ UNCHANGED <<now, session, storageThrows, today, pageViewCount, funnel, metrics, dom,
                   history>>

\* ---------------------------------------------------------------- cohorts
\* a second reading that always equals the first
SecondReads_Same(t, date) == {[t |-> t, date |-> date]}

\* what a second new Date() may show after a first one showed (t, date): the
\* same instant, a later instant of the same day, or a later instant past
\* midnight
SecondReads(t, date) ==
  {[t |-> t, date |-> date]}
    \cup (IF t < MaxTime
          THEN {[t |-> t + 1, date |-> date], [t |-> t + 1, date |-> NextDay(date)]}
          ELSE {})

\* `cohort_${getFullYear()}_${String(getMonth() + 1).padStart(2, "0")}`
getCohortId(date) ==
  <<"cohort_">> \o String(date.year) \o <<"_">> \o padStart(String(date.month + 1), 2, "0")

CohortJoinEvent(cohortId, joinDate) ==
  Event("CohortJoin", [cohortId |-> cohortId, joinDate |-> joinDate, sessionId |-> sessionId],
        NoMeas)

joinCohort ==
  \E failAt \in FailPoints, read \in SecondReads(now, today) :
    LET cohortId == getCohortId(today)
        joinDate == toISOString(read.t, read.date)
        evs == <<CohortJoinEvent(cohortId, joinDate)>>
    IN
    /\ called' = "joinCohort"
    /\ random' = NoDraw
    /\ IF Throws(evs, failAt)
       THEN /\ Thrown(evs, failAt)
            /\ UNCHANGED localStorage
       ELSE IF storageThrows
       THEN /\ emitted' = Handed(evs, failAt)
            /\ raised' = TRUE
            /\ status' = NoStatus
            /\ UNCHANGED <<faultsLeft, localStorage>>
       ELSE /\ emitted' = Handed(evs, failAt)
            /\ localStorage' = setItem(setItem(localStorage, "user_cohort", cohortId),
                                       "cohort_join_date", joinDate)
            /\ showStatus("Joined cohort: ", <<cohortId>>, "success")
    /\ now' = read.t
    /\ today' = read.date
    /\ UNCHANGED <<session, storageThrows, pageViewCount, funnel, metrics, dom, history>>

CohortRetentionEvent(cohortId, daysSinceJoin) ==
  Event("CohortRetention",
        [cohortId |-> cohortId, sessionId |-> sessionId,
         retentionEvent |-> "active_engagement"],
        [daysSinceJoin |-> daysSinceJoin])

\* a check of the stored membership that never fails
MembershipMissing_Unchecked(cohortId, joinDate) == FALSE

\* !cohortId || !joinDate
MembershipMissing(cohortId, joinDate) == Absent(cohortId) \/ Absent(joinDate)

trackRetention ==
  \E failAt \in FailPoints :
    LET cohortId == getItem(localStorage, "user_cohort")
        joinDate == getItem(localStorage, "cohort_join_date")
        daysSinceJoin == IF Absent(joinDate) THEN NaN
                         ELSE (now - getTime(joinDate[1])) \div MsPerDay
        evs == <<CohortRetentionEvent(cohortId, daysSinceJoin)>>
    IN
    /\ called' = "trackRetention"
    /\ random' = NoDraw
    /\ IF storageThrows
       THEN StorageException
       ELSE IF MembershipMissing(cohortId, joinDate)
       THEN /\ showStatus("Please join a cohort first", <<>>, "error")
            /\ emitted' = <<>>
       ELSE IF Throws(evs, failAt)
       THEN Thrown(evs, failAt)
       ELSE /\ emitted' = Handed(evs, failAt)
            /\ showStatus("Retention event tracked (Day  since joining cohort)",
                          <<daysSinceJoin>>, "success")
    /\ UNCHANGED <<now, session, store, pageViewCount, funnel, metrics, dom, history>>

\* the simulated figures, from four draws of Math.random() in hundredths;
\* retentionRate, a number with two decimals, in hundredths too
CohortAnalysisViewEvent(cohortId, d1, d2, d3, d4) ==
  Event("CohortAnalysisView",
        [cohortId |-> cohortId, sessionId |-> sessionId],
        [totalMembers |-> (d1 * 1000) \div 100 + 100,
         activeMembers |-> (d2 * 500) \div 100 + 50,
         retentionRate |-> (d3 * 40 + 50) \div 100 + 30,
         avgSessionDuration |-> (d4 * 300) \div 100 + 120])

viewCohortData ==
  \E failAt \in FailPoints, d1 \in UnitDraws, d2 \in UnitDraws, d3 \in UnitDraws,
     d4 \in UnitDraws :
    LET cohortId == getItem(localStorage, "user_cohort")
        evs == <<CohortAnalysisViewEvent(cohortId, d1, d2, d3, d4)>>
    IN
    /\ called' = "viewCohortData"
    /\ random' = NoDraw
    /\ IF storageThrows
       THEN StorageException
       ELSE IF Absent(cohortId)
       THEN /\ showStatus("No cohort data available. Please join a cohort first.", <<>>,
                          "error")
            /\ emitted' = <<>>
       ELSE IF Throws(evs, failAt)
       THEN Thrown(evs, failAt)
       ELSE /\ emitted' = Handed(evs, failAt)
            /\ showStatus("Cohort analytics data displayed", <<>>, "success")
    /\ UNCHANGED <<now, session, store, pageViewCount, funnel, metrics, dom, history>>

\* ---------------------------------------------------------------- page load
\* the dashboard page after its inline script ran: the SDK stub is
\* window.appInsights, fetch('/api/config') is under way, js/analytics.js has
\* not been executed; the fields of the manager hold placeholders
InitPageLoad ==
  /\ page = PageLoading
  /\ \E client \in BOOLEAN : server = ServerStarted(client)
  /\ now = 0
  /\ appInsights = TRUE
  /\ faultsLeft = 0
  /\ sessionId = NULL
  /\ sessionStartTime = 0
  /\ userId = UNDEFINED
  /\ constructed = FALSE
  /\ localStorage = EmptyStorage
  /\ storageThrows = FALSE
  /\ today = OpeningDate
  /\ pageViewCount = 0
  /\ currentQuoteId = NULL
  /\ currentApplicationId = NULL
  /\ metrics = ZeroMetrics
  /\ dom = InitialDom
  /\ status = NoStatus
  /\ emitted = <<>>
  /\ called = "none"
  /\ random = NoDraw
  /\ raised = FALSE
  /\ okCalls = ZeroCalls
  /\ stage = "Idle"
  /\ appCompleted = FALSE
  /\ quoteAtStart = NULL
  /\ typedCoverage = <<>>

\* a step of the page's loading that changes `page` only
PageStep(next) ==
  /\ page' = next
  /\ NoCall
  /\ UNCHANGED <<now, appInsights, sessionId, sessionStartTime, userId, constructed, server,
                 store, faultsLeft, pageViewCount, funnel, metrics, dom, history>>

\* <script src="js/analytics.js"> is executed
ScriptExecuted ==
  /\ ~page.script
  /\ PageStep([page EXCEPT !.script = TRUE])

\* how fetch('/api/config') may end: a connection string, an empty connection
\* string, or a rejection
FetchOutcomes == {"configured", "unconfigured", "failed"}

\* an outcome that always sets the timer
SetsInitTimer_Always(outcome) == TRUE

\* the then-branch with a connection string and the catch-branch call
\* setTimeout(initializeAnalytics, 500); the else-branch only warns
SetsInitTimer(outcome) == outcome \in {"configured", "failed"}

\* fetch('/api/config') is settled and its callbacks run
FetchSettled ==
  \E outcome \in FetchOutcomes :
    /\ page.fetch = "pending"
    /\ PageStep([page EXCEPT !.fetch = outcome,
                             !.initTimer = IF SetsInitTimer(outcome) THEN "pending" ELSE "none"])

\* analyticsManager = new AnalyticsManager(), at the clock reading `now`
NewAnalyticsManager(next) ==
  \E r \in Randoms :
    LET made == getOrCreateUserId(localStorage, now, r)
    IN
    /\ page' = next
    /\ called' = "constructor"
    /\ random' = NoDraw
    /\ sessionId' = generateSessionId(now)
    /\ IF storageThrows
       THEN /\ constructed' = FALSE
            /\ userId' = UNDEFINED
            /\ emitted' = <<>>
            /\ UNCHANGED localStorage
       ELSE /\ constructed' = TRUE
            /\ userId' = made.userId
            /\ localStorage' = made.storage
            /\ emitted' = IF appInsights THEN <<DeviceInfoEvent(generateSessionId(now))>>
                          ELSE <<>>
    /\ sessionStartTime' = now
    /\ pageViewCount' = 0
    /\ currentQuoteId' = NULL
    /\ currentApplicationId' = NULL
    /\ metrics' = ZeroMetrics
    /\ status' = NoStatus
    /\ raised' = FALSE
    /\ UNCHANGED <<now, appInsights, faultsLeft, storageThrows, today, server, dom, history>>

\* the 500 ms timer runs: initializeAnalytics() if js/analytics.js has defined it
InitTimerFired ==
  /\ page.initTimer = "pending"
  /\ IF page.script
     THEN NewAnalyticsManager([page EXCEPT !.initTimer = "fired", !.analyticsManager = TRUE,
                                          !.pageViewTimer = "pending"])
     ELSE PageStep([page EXCEPT !.initTimer = "fired"])

\* a listener that does not look at window.appInsights
DOMContentLoaded_WithoutSinkTest ==
  /\ page.script
  /\ ~page.domContentLoaded
  /\ IF ~page.analyticsManager
     THEN NewAnalyticsManager([page EXCEPT !.domContentLoaded = TRUE,
                                          !.analyticsManager = TRUE])
     ELSE PageStep([page EXCEPT !.domContentLoaded = TRUE])

\* the DOMContentLoaded listener of js/analytics.js
DOMContentLoaded ==
  /\ page.script
  /\ ~page.domContentLoaded
  /\ IF ~page.analyticsManager /\ ~appInsights
     THEN NewAnalyticsManager([page EXCEPT !.domContentLoaded = TRUE,
                                          !.analyticsManager = TRUE])
     ELSE PageStep([page EXCEPT !.domContentLoaded = TRUE])

\* analyticsManager.<method>() while analyticsManager is undefined: a TypeError
UndefinedManager(handler) ==
  /\ called' = handler
  /\ random' = NoDraw
  /\ TypeError
  /\ UNCHANGED <<now, session, store, pageViewCount, funnel, metrics, dom, history>>

\* the global functions the buttons call
onclick_trackPageView ==
  /\ page.script
  /\ IF page.analyticsManager THEN trackPageView ELSE UndefinedManager("trackPageView")

onclick_simulateBounce ==
  /\ page.script
  /\ IF page.analyticsManager THEN simulateBounce ELSE UndefinedManager("simulateBounce")

onclick_trackTimeOnPage ==
  /\ page.script
  /\ IF page.analyticsManager THEN trackTimeOnPage ELSE UndefinedManager("trackTimeOnPage")

\* ----------------------------------------------------------- specification
Next ==
  \/ Tick
  \/ EditForm
  \/ submitQuoteRequest
  \/ startApplication
  \/ completeApplication
  \/ purchasePolicy
  \/ trackPageView
  \/ simulateBounce
  \/ trackTimeOnPage
  \/ runABTest
  \/ measurePageLoad
  \/ simulateError
  \/ trackDeviceInfo
  \/ trackCustomSegment

Spec == Init /\ [][Next]_vars

\* the same operations against a sink whose calls may throw
SinkFailureSpec == InitSinkFailure /\ [][Next]_vars

\* the purchase journey alone against a sink whose calls may throw
JourneyNext ==
  \/ Tick
  \/ EditForm
  \/ submitQuoteRequest
  \/ startApplication
  \/ completeApplication
  \/ purchasePolicy

JourneyFailureSpec == InitSinkFailure /\ [][JourneyNext]_vars

\* the purchase journey alone against a sink that accepts every call
JourneySpec == Init /\ [][JourneyNext]_vars

\* the methods that neither read the form nor touch the journey's identifiers
WebNext ==
  \/ Tick
  \/ trackPageView
  \/ simulateBounce
  \/ trackTimeOnPage
  \/ runABTest
  \/ measurePageLoad
  \/ simulateError
  \/ trackDeviceInfo
  \/ trackCustomSegment

WebSpec == Init /\ [][WebNext]_vars

\* the purchase journey together with page views and bounces
BounceNext ==
  \/ JourneyNext
  \/ trackPageView
  \/ simulateBounce

BounceSpec == Init /\ [][BounceNext]_vars

\* a store in which an earlier session on the opening date joined a cohort
StoreWithMembership ==
  setItem(setItem(EmptyStorage, "user_cohort", getCohortId(OpeningDate)),
          "cohort_join_date", toISOString(0, OpeningDate))

\* a visit over that store
InitMember ==
  \E r \in Randoms : Constructed(TRUE, 0, StoreWithMembership, FALSE, r, OpeningDate)

\* the purchase journey together with the visitor simulations
VisitorNext ==
  \/ EditForm
  \/ submitQuoteRequest
  \/ startApplication
  \/ completeApplication
  \/ purchasePolicy
  \/ simulateNewVisitor
  \/ simulateReturningVisitor

VisitorSpec == InitMember /\ [][VisitorNext]_vars

\* the visitor simulations in a page that stays open for days
ReturningNext ==
  \/ Tick
  \/ Away
  \/ simulateNewVisitor
  \/ simulateReturningVisitor

ReturningSpec == InitStore /\ [][ReturningNext]_vars

\* the purchase journey in a page that stays open for days, its timer running
TimerNext ==
  \/ Wait
  \/ TimerTick
  \/ EditForm
  \/ submitQuoteRequest
  \/ startApplication
  \/ completeApplication
  \/ purchasePolicy

TimerSpec == Init /\ [][TimerNext]_vars

\* the methods of the manager that write neither localStorage nor the clock
\* reading, and its timer, in a page that stays open for whole timer intervals
\* over a store with a cohort membership
SessionNext ==
  \/ Wait
  \/ TimerTick
  \/ FillForm
  \/ submitQuoteRequest
  \/ startApplication
  \/ completeApplication
  \/ purchasePolicy
  \/ trackPageView
  \/ simulateBounce
  \/ trackTimeOnPage
  \/ runABTest
  \/ measurePageLoad
  \/ simulateError
  \/ trackDeviceInfo
  \/ trackCustomSegment
  \/ trackRetention
  \/ viewCohortData

SessionSpec == InitMember /\ [][SessionNext]_vars

\* one session while the clock stands still: the form edited field by field,
\* the journey and every method that reads neither localStorage nor the calendar
CounterNext ==
  \/ EditForm
  \/ submitQuoteRequest
  \/ startApplication
  \/ completeApplication
  \/ purchasePolicy
  \/ trackPageView
  \/ simulateBounce
  \/ trackTimeOnPage
  \/ runABTest
  \/ measurePageLoad
  \/ simulateError
  \/ trackDeviceInfo
  \/ trackCustomSegment

CounterSpec == Init /\ [][CounterNext]_vars

\* sessions that follow each other over one store that holds a cohort
\* membership: the journey, page views, the visitor simulations and page loads
ReloadNext ==
  \/ FillForm
  \/ submitQuoteRequest
  \/ startApplication
  \/ completeApplication
  \/ purchasePolicy
  \/ trackPageView
  \/ simulateNewVisitor
  \/ Reload

ReloadSpec == InitMember /\ [][ReloadNext]_vars

\* a first visit on a page where window.appInsights is defined, or is not
InitEitherSink ==
  \E sink \in BOOLEAN : Constructed(sink, 0, EmptyStorage, FALSE, "k3j9x2m1q", OpeningDate)

\* the journey and the page views with and without the sink
EitherSinkSpec == InitEitherSink /\ [][BounceNext]_vars

\* the loading of the page, with the user clicking buttons and the server
\* answering requests meanwhile
PageNext ==
  \/ Tick
  \/ HttpGet
  \/ ScriptExecuted
  \/ FetchSettled
  \/ InitTimerFired
  \/ DOMContentLoaded
  \/ onclick_trackPageView
  \/ onclick_simulateBounce
  \/ onclick_trackTimeOnPage

PageSpec == InitPageLoad /\ [][PageNext]_vars

\* the events of the loading happen when they are due: the script is
\* executed, the fetch is settled, a timer that was set runs, and
\* DOMContentLoaded is dispatched
PageFairSpec ==
  /\ PageSpec
  /\ WF_vars(ScriptExecuted)
  /\ WF_vars(FetchSettled)
  /\ WF_vars(InitTimerFired)
  /\ WF_vars(DOMContentLoaded)

\* the methods over localStorage, and the page loaded again
StoreNext ==
  \/ Tick
  \/ Reload
  \/ simulateNewVisitor
  \/ simulateReturningVisitor
  \/ joinCohort
  \/ trackRetention
  \/ viewCohortData

StoreSpec == InitStore /\ [][StoreNext]_vars

\* the cohort methods on any date
CohortNext ==
  \/ joinCohort
  \/ trackRetention
  \/ viewCohortData

CohortSpec == InitAnyDate /\ [][CohortNext]_vars

\* the same operations in a browser whose localStorage throws
StorageFailureSpec == InitStorageFailure /\ [][Next]_vars

\* ================================================================ claims
FunnelCalls == {"submitQuoteRequest", "startApplication", "completeApplication",
                "purchasePolicy"}

\* the stage each funnel call starts from in the stated state machine
Predecessor(call) ==
  CASE call = "submitQuoteRequest" -> "Idle"
    [] call = "startApplication" -> "QuoteRequested"
    [] call = "completeApplication" -> "ApplicationStarted"
    [] call = "purchasePolicy" -> "ApplicationCompleted"

CountersMatchCalls ==
  /\ metrics.quoteRequests = okCalls.submitQuoteRequest
  /\ metrics.applicationsStarted = okCalls.startApplication
  /\ metrics.applicationsCompleted = okCalls.completeApplication
  /\ metrics.policiesSold = okCalls.purchasePolicy

\* the methods that step a counter
CountingCalls == FunnelCalls \cup {"trackPageView"}

CountersStep ==
  /\ \A k \in DOMAIN metrics : metrics'[k] >= metrics[k]
  /\ (called' \in FunnelCalls /\ status'.type = "error") => metrics' = metrics
  /\ called' \notin CountingCalls => metrics' = metrics

\* C1: in every state each of quoteRequests, applicationsStarted,
\* applicationsCompleted and policiesSold equals the number of successful calls
\* of its method; no step decreases a counter; a funnel call that ends with an
\* error status leaves all five counters unchanged, and so does every call of
\* another method than the four funnel methods and trackPageView.
C1_CountersCountSuccessfulCalls == []CountersMatchCalls /\ [][CountersStep]_vars

\* C1 witness: the four calls of a whole journey were counted, then a call failed
C1_Witness ==
  /\ okCalls.purchasePolicy = 1
  /\ okCalls.completeApplication = 1
  /\ called = "completeApplication"
  /\ status.type = "error"

\* C2: purchasePolicy succeeds (increments policiesSold) only if
\* completeApplication has succeeded for the active application since that
\* application was started.
C2_PurchaseOnlyAfterCompletion ==
  [][(called' = "purchasePolicy" /\ metrics'.policiesSold > metrics.policiesSold)
       => appCompleted]_vars

\* C3: startApplication called while currentQuoteId is null reports the
\* quote-required error, changes neither identifier nor any counter, and hands
\* no event to the sink.
C3_StartWithoutQuoteFails ==
  [][(called' = "startApplication" /\ IsNull(currentQuoteId))
       => /\ status' = Status("Please request a quote first", <<>>, "error")
          /\ ~raised'
          /\ funnel' = funnel
          /\ metrics' = metrics
          /\ emitted' = <<>>]_vars

\* C3 witness: startApplication was called with no quote and refused
C3_Witness ==
  /\ called = "startApplication"
  /\ IsNull(currentQuoteId)
  /\ status.message = "Please request a quote first"

\* C4: completeApplication called while currentApplicationId is null or the
\* personalInfo field is empty ends with an error status, leaves the counters
\* and the funnel identifiers unchanged and emits neither ApplicationCompleted
\* nor FunnelStep.
C4_CompleteWithoutApplicationOrInfoFails ==
  [][(called' = "completeApplication"
        /\ (IsNull(currentApplicationId) \/ dom.personalInfo = ""))
       => /\ status'.type = "error"
          /\ status'.message \in {"Please start an application first",
                                   "Please fill in personal information"}
          /\ funnel' = funnel
          /\ metrics' = metrics
          /\ \A i \in 1..Len(emitted') :
               emitted'[i].name \notin {"ApplicationCompleted", "FunnelStep"}]_vars

\* C4 witness: an application is active and completeApplication was refused
\* for its empty personalInfo
C4_Witness ==
  /\ called = "completeApplication"
  /\ ~IsNull(currentApplicationId)
  /\ dom.personalInfo = ""
  /\ status.message = "Please fill in personal information"

\* C5: a successful purchasePolicy leaves currentQuoteId and
\* currentApplicationId null, and from then until submitQuoteRequest succeeds
\* again every startApplication, completeApplication and purchasePolicy fails.
C5_AfterPurchaseOnlyAQuoteRestarts ==
  [][/\ (called' = "purchasePolicy" /\ status'.type = "success")
          => (IsNull(currentQuoteId') /\ IsNull(currentApplicationId'))
     /\ (okCalls.purchasePolicy > 0 /\ stage = "Idle"
           /\ called' \in FunnelCalls \ {"submitQuoteRequest"})
          => /\ status'.type = "error"
             /\ metrics' = metrics
             /\ IsNull(currentQuoteId') /\ IsNull(currentApplicationId')]_vars

\* C5 witness: after a purchase, startApplication was called and refused
C5_Witness ==
  /\ okCalls.purchasePolicy = 1
  /\ stage = "Idle"
  /\ called = "startApplication"
  /\ status.type = "error"

\* C6: currentApplicationId is non-null only if currentQuoteId is non-null,
\* and a step that clears either identifier is a purchasePolicy that clears
\* both.
C6_ApplicationOnlyWithQuote ==
  /\ [](~IsNull(currentApplicationId) => ~IsNull(currentQuoteId))
  /\ [][(\/ (~IsNull(currentQuoteId) /\ IsNull(currentQuoteId'))
          \/ (~IsNull(currentApplicationId) /\ IsNull(currentApplicationId')))
          => /\ called' = "purchasePolicy"
             /\ IsNull(currentQuoteId')
             /\ IsNull(currentApplicationId')]_vars

\* C6 witness: purchasePolicy has just cleared an active quote and application
C6_Witness ==
  /\ called = "purchasePolicy"
  /\ status.type = "success"
  /\ IsNull(currentQuoteId)
  /\ IsNull(currentApplicationId)

\* C7: each funnel call succeeds only from its predecessor stage of
\* Idle -> QuoteRequested -> ApplicationStarted -> ApplicationCompleted -> Idle
\* (so startApplication succeeds at most once per quote and
\* completeApplication at most once per application).
C7_OneStagePerCall ==
  [][(called' \in FunnelCalls /\ status'.type = "success")
       => stage = Predecessor(called')]_vars

\* C8: submitQuoteRequest with an empty customerName, insuranceType or
\* coverageAmount reports the validation error, leaves every counter and the
\* active currentQuoteId/currentApplicationId as they were and emits nothing.
C8_IncompleteQuoteFormIsNoOp ==
  [][(called' = "submitQuoteRequest"
        /\ (dom.customerName = "" \/ dom.insuranceType = ""
              \/ dom.coverageAmount = <<>>))
       => /\ status' = Status("Please fill in all fields", <<>>, "error")
          /\ funnel' = funnel
          /\ metrics' = metrics
          /\ emitted' = <<>>]_vars

\* C8 witness: an incomplete quote form was refused while a journey was active
C8_Witness ==
  /\ called = "submitQuoteRequest"
  /\ status.message = "Please fill in all fields"
  /\ ~IsNull(currentQuoteId)
  /\ ~IsNull(currentApplicationId)

C10_SinkFailureSwallowed ==
  [][/\ ~raised'
     /\ (called' = "purchasePolicy" /\ metrics'.policiesSold > metrics.policiesSold)
          => (IsNull(currentQuoteId') /\ IsNull(currentApplicationId'))]_vars

\* C11: in a session whose localStorage throws, the constructor leaves a
\* manager with a userId and with its counters and funnel fields assigned,
\* and no later call ends by an exception reaching its caller.
C11_StorageFailureDegrades ==
  storageThrows => (constructed /\ userId # UNDEFINED /\ ~raised)

StoredUserId == getItem(localStorage, "app_insights_user_id")

\* what a call of getOrCreateUserId (made by the constructor) returns
UserIdStep ==
  called' = "constructor" =>
    /\ userId' # UNDEFINED
    /\ userId'.prefix = "user"
    /\ getItem(localStorage', "app_insights_user_id") = <<userId'>>
    /\ IF Absent(StoredUserId) THEN userId' # userId ELSE userId' = userId

\* the stored identifier goes away by simulateNewVisitor only, and always by it
UserIdResetStep ==
  /\ (Absent(StoredUserId') /\ ~Absent(StoredUserId)) => called' = "simulateNewVisitor"
  /\ (called' = "simulateNewVisitor" /\ ~raised') => Absent(StoredUserId')

\* C12: as long as the stored identifier was not cleared, it is the value the
\* last call of getOrCreateUserId returned, and the next call, in this or a
\* later session, returns it again; after simulateNewVisitor cleared it the
\* next call returns a newly generated value that differs from the one before
\* and stores it.
C12_UserIdStableUntilReset ==
  /\ [](Absent(StoredUserId) \/ StoredUserId = <<userId>>)
  /\ [][UserIdStep /\ UserIdResetStep]_vars

\* C12 witness: a session constructed after simulateNewVisitor cleared the
\* identifier, with the identifier generated at its construction
C12_Witness ==
  /\ called = "constructor"
  /\ now > 0
  /\ userId.t = now
  /\ getItem(localStorage, "visitor_type") = <<"new">>

\* the property of an event under one of the keys, NULL when it has none
Carried(e, keys) ==
  IF \E k \in keys : k \in DOMAIN e.properties
  THEN e.properties[CHOOSE k \in keys : k \in DOMAIN e.properties]
  ELSE NULL

\* C13: every event handed to the sink has the property sessionId, equal to
\* the session's sessionId; every event of startApplication,
\* completeApplication and purchasePolicy has a non-null quoteId or funnelId;
\* every ApplicationStarted, ApplicationCompleted and PolicyPurchased event
\* has a non-null applicationId.
C13_EventsCarryCorrelation ==
  \A i \in 1..Len(emitted) :
    /\ Carried(emitted[i], {"sessionId"}) = sessionId
    /\ called \in {"startApplication", "completeApplication", "purchasePolicy"}
         => ~IsNull(Carried(emitted[i], {"quoteId", "funnelId"}))
    /\ emitted[i].name \in {"ApplicationStarted", "ApplicationCompleted", "PolicyPurchased"}
         => ~IsNull(Carried(emitted[i], {"applicationId"}))

\* C14: every call of trackPageView ends with a success status, steps
\* pageViews by one and hands over one page view event; the event of the n-th
\* call of a session has pageNumber n, and it is flagged isFirstView exactly
\* when n = 1, so one event per session is flagged and it is the first one.
C14_PageViewsNumbered ==
  [][called' = "trackPageView" =>
       /\ status'.type = "success"
       /\ ~raised'
       /\ metrics'.pageViews = metrics.pageViews + 1
       /\ Len(emitted') = 1
       /\ emitted'[1].name = "PageView"
       /\ emitted'[1].properties.pageNumber = okCalls'.trackPageView
       /\ emitted'[1].properties.isFirstView = (okCalls'.trackPageView = 1)
       /\ emitted'[1].measurements.timeOnPage = now - sessionStartTime]_vars

\* C14 witness: the second page view of a session, not flagged
C14_Witness ==
  /\ called = "trackPageView"
  /\ okCalls.trackPageView = 2
  /\ emitted[1].properties.pageNumber = 2
  /\ ~emitted[1].properties.isFirstView

Names(evs) == [i \in 1..Len(evs) |-> evs[i].name]

\* C15: a purchasePolicy that ends with its success status has handed over
\* exactly PolicyPurchased, Conversion (conversionType policy_purchase) and
\* FunnelStep (step purchase_completed), in this order, each with the quote
\* identifier that was current before the call, and has then cleared both
\* funnel identifiers; a purchasePolicy that changes the funnel identifiers has
\* handed over all three events before.
C15_PurchaseEmitsThenResets ==
  [][called' = "purchasePolicy" =>
       /\ status'.type = "success" =>
            /\ Names(emitted') = <<"PolicyPurchased", "Conversion", "FunnelStep">>
            /\ emitted'[2].properties.conversionType = "policy_purchase"
            /\ emitted'[3].properties.step = "purchase_completed"
            /\ ~IsNull(currentQuoteId)
            /\ \A i \in 1..3 : Carried(emitted'[i], {"quoteId", "funnelId"}) = currentQuoteId
            /\ IsNull(currentQuoteId') /\ IsNull(currentApplicationId')
       /\ funnel' # funnel => Len(emitted') = 3]_vars

\* C15 witness: a purchase that handed over its three events and reset the funnel
C15_Witness ==
  /\ called = "purchasePolicy"
  /\ status.type = "success"
  /\ Len(emitted) = 3
  /\ IsNull(currentQuoteId)

StepsCounter(call) ==
  IF call = "startApplication"
  THEN metrics'.applicationsStarted = metrics.applicationsStarted + 1
  ELSE metrics'.applicationsCompleted = metrics.applicationsCompleted + 1

\* C16: a startApplication that ends with its success status has handed over
\* ApplicationStarted and then FunnelStep (step application_started), a
\* completeApplication that ends with its success status ApplicationCompleted
\* and then FunnelStep (step application_completed); the funnelId of the
\* FunnelStep is the quoteId of the event before it; whenever one of the two
\* methods has handed anything to the sink, or the sink has thrown, the
\* method's counter is already stepped.
C16_ApplicationEventsPaired ==
  [][called' \in {"startApplication", "completeApplication"} =>
       /\ status'.type = "success" =>
            /\ Names(emitted') =
                 IF called' = "startApplication"
                 THEN <<"ApplicationStarted", "FunnelStep">>
                 ELSE <<"ApplicationCompleted", "FunnelStep">>
            /\ emitted'[2].properties.step =
                 IF called' = "startApplication"
                 THEN "application_started" ELSE "application_completed"
            /\ emitted'[2].properties.funnelId = emitted'[1].properties.quoteId
            /\ StepsCounter(called')
       /\ (emitted' # <<>> \/ raised') => StepsCounter(called')]_vars

\* C16 witness: a completeApplication that handed over its pair of events
C16_Witness ==
  /\ called = "completeApplication"
  /\ status.type = "success"
  /\ Names(emitted) = <<"ApplicationCompleted", "FunnelStep">>
  /\ metrics.applicationsCompleted = 1

\* labels runABTest may be called with, and all draws in hundredths
Labels == Variants \cup {"VARIANT_A", "control", ""}
Hundredths == 0..99

\* C17: every runABTest hands over exactly one ABTestParticipation event,
\* first; it hands over an ABTestConversion event after it exactly when the
\* draw is strictly below 0.15 for the label variant_a and strictly below 0.22
\* for any other label, and nothing else.  (The first conjunct mentions no
\* variable: it is the same in every state.)
C17_ConversionBelowThreshold ==
  /\ \A label \in Labels, d \in Hundredths :
       converted(label, d) <=> d < (IF label = "variant_a" THEN 15 ELSE 22)
  /\ [][called' = "runABTest" =>
          LET variant == emitted'[1].properties.variant
              threshold == IF variant = "variant_a" THEN 15 ELSE 22
          IN
          /\ Len(emitted') >= 1
          /\ emitted'[1].name = "ABTestParticipation"
          /\ IF random' < threshold
             THEN /\ Names(emitted') = <<"ABTestParticipation", "ABTestConversion">>
                  /\ emitted'[2].properties.variant = variant
             ELSE Names(emitted') = <<"ABTestParticipation">>]_vars

\* C17 witness: a draw of exactly 0.15 for variant_a, which does not convert
C17_Witness ==
  /\ called = "runABTest"
  /\ random = 15
  /\ emitted[1].properties.variant = "variant_a"
  /\ Len(emitted) = 1

\* the event names of a runABTest for each label and draw
ABTestOutcome ==
  [variant \in Variants |->
     [d \in Draws |->
        IF <<variant, d>> \in {<<"variant_a", 14>>, <<"variant_b", 14>>, <<"variant_b", 15>>,
                               <<"variant_b", 21>>}
        THEN <<"ABTestParticipation", "ABTestConversion">>
        ELSE <<"ABTestParticipation">>]]

\* C18: a runABTest changes neither the funnel identifiers, nor a counter,
\* nor a key of localStorage, nor any other field of the manager or of the
\* form, and the event names it hands over are the same for the same label
\* and draw in every state it is called in.
C18_ABTestStateless ==
  [][called' = "runABTest" =>
       /\ funnel' = funnel
       /\ metrics' = metrics
       /\ pageViewCount' = pageViewCount
       /\ localStorage' = localStorage
       /\ session' = session
       /\ dom' = dom
       /\ Names(emitted') = ABTestOutcome[emitted'[1].properties.variant][random']]_vars

\* C18 witness: a converting runABTest in the middle of a purchase journey
\* after page views were counted
C18_Witness ==
  /\ called = "runABTest"
  /\ Len(emitted) = 2
  /\ ~IsNull(currentApplicationId)
  /\ metrics.pageViews > 0

IsDigit(c) == \E i \in 1..10 : DecimalDigits[i] = c

\* the text cohort_YYYY_MM of a year and a month counted from 1
WellFormedCohortId(id, year, month) ==
  /\ Len(id) = 8
  /\ id[1] = "cohort_"
  /\ \A i \in 2..5 : IsDigit(id[i])
  /\ IntValue(SubSeq(id, 2, 5)) = year
  /\ id[6] = "_"
  /\ \A i \in 7..8 : IsDigit(id[i])
  /\ IntValue(SubSeq(id, 7, 8)) = month

\* C19: on every date the cohort identifier joinCohort computes is cohort_,
\* the four digits of the year, an underscore and the two digits of the month
\* (01 to 12); on 2024-03-15 it is exactly cohort_2024_03.
C19_CohortIdOfDate ==
  /\ getCohortId([year |-> 2024, month |-> 2, day |-> 15])
       = <<"cohort_", "2", "0", "2", "4", "_", "0", "3">>
  /\ [][(called' = "joinCohort" /\ ~raised') =>
          /\ getItem(localStorage', "user_cohort") = <<getCohortId(today)>>
          /\ emitted'[1].properties.cohortId = getCohortId(today)
          /\ WellFormedCohortId(getCohortId(today), today.year, today.month + 1)]_vars

\* C19 witness: joined on 2024-03-15, the stored identifier is cohort_2024_03
C19_Witness ==
  /\ called = "joinCohort"
  /\ today = [year |-> 2024, month |-> 2, day |-> 15]
  /\ getItem(localStorage, "user_cohort") = <<<<"cohort_", "2", "0", "2", "4", "_", "0", "3">>>>

\* what the persistent store records of a cohort membership
StoredCohort == getItem(localStorage, "user_cohort")
StoredJoinDate == getItem(localStorage, "cohort_join_date")
Member == StoredCohort # <<>> /\ StoredJoinDate # <<>>

\* C20: while the store records no cohort membership, trackRetention and
\* viewCohortData end with an error message and hand no event to the sink; a
\* membership is recorded by a successful joinCohort only and is never removed,
\* by a new page load included; with a membership recorded, trackRetention
\* succeeds and hands over one CohortRetention event of the stored cohort.
C20_RetentionNeedsMembership ==
  /\ ~Member
  /\ [](StoredCohort = <<>> <=> StoredJoinDate = <<>>)
  /\ [][/\ (~Member /\ called' \in {"trackRetention", "viewCohortData"}) =>
             (status'.type = "error" /\ emitted' = <<>> /\ ~raised')
        /\ (~Member /\ Member') => (called' = "joinCohort" /\ status'.type = "success")
        /\ (called' = "joinCohort" /\ status'.type = "success") => Member'
        /\ Member =>
             /\ Member'
             /\ StoredCohort' = IF called' = "joinCohort" THEN <<getCohortId(today)>>
                                ELSE StoredCohort
        /\ (Member /\ called' = "trackRetention") =>
             /\ status'.type = "success"
             /\ ~raised'
             /\ Names(emitted') = <<"CohortRetention">>
             /\ emitted'[1].properties.cohortId = StoredCohort
             /\ emitted'[1].properties.sessionId = sessionId]_vars

\* C20 witness: trackRetention succeeds in a session constructed after the one
\* that joined
C20_Witness ==
  /\ called = "trackRetention"
  /\ status.type = "success"
  /\ Names(emitted) = <<"CohortRetention">>
  /\ Member
  /\ sessionId.t > getTime(StoredJoinDate[1])

\* C21: whenever the store holds both user_cohort and cohort_join_date, the
\* stored cohort identifier is the one of the year and month of the stored
\* join date.
C21_MembershipConsistent ==
  Member => StoredCohort = <<getCohortId(StoredJoinDate[1].date)>>

\* C22: simulateBounce hands over exactly one BounceEvent whose
\* pageViewsInSession is the page view count of the session, and changes
\* neither that count, nor the quote or application identifier, nor any of the
\* five counters, nor localStorage, whatever the state of the funnel.
C22_BounceLeavesFunnelAlone ==
  [][called' = "simulateBounce" =>
       /\ Names(emitted') = <<"BounceEvent">>
       /\ emitted'[1].measurements.pageViewsInSession = pageViewCount
       /\ emitted'[1].measurements.timeOnPageMs = now - sessionStartTime
       /\ pageViewCount' = pageViewCount
       /\ currentQuoteId' = currentQuoteId
       /\ currentApplicationId' = currentApplicationId
       /\ metrics' = metrics
       /\ localStorage' = localStorage
       /\ ~raised']_vars

\* C22 witness: a bounce after two page views, with an application under way
C22_Witness ==
  /\ called = "simulateBounce"
  /\ pageViewCount = 2
  /\ ~IsNull(currentQuoteId)
  /\ ~IsNull(currentApplicationId)
  /\ emitted[1].measurements.pageViewsInSession = 2

IdentityKeys == {"app_insights_user_id", "visitor_type", "last_visit"}

\* C23: simulateNewVisitor and simulateReturningVisitor write no key of
\* localStorage other than app_insights_user_id, visitor_type and last_visit,
\* and change neither the quote or application identifier, nor a counter, nor
\* the session identifier, nor the stored cohort membership.
C23_VisitorSimulationsFrame ==
  [][called' \in {"simulateNewVisitor", "simulateReturningVisitor"} =>
       /\ \A k \in StorageKeys \ IdentityKeys : localStorage'[k] = localStorage[k]
       /\ StoredCohort' = StoredCohort
       /\ StoredJoinDate' = StoredJoinDate
       /\ currentQuoteId' = currentQuoteId
       /\ currentApplicationId' = currentApplicationId
       /\ metrics' = metrics
       /\ pageViewCount' = pageViewCount
       /\ sessionId' = sessionId
       /\ sessionStartTime' = sessionStartTime]_vars

\* C23 witness: a visitor simulation in a session that has a quote, a counter
\* above zero and a stored cohort membership
C23_Witness ==
  /\ called = "simulateNewVisitor"
  /\ Member
  /\ ~IsNull(currentQuoteId)
  /\ metrics.quoteRequests = 1
  /\ getItem(localStorage, "app_insights_user_id") = <<>>
  /\ getItem(localStorage, "visitor_type") = <<"new">>

StoredLastVisit == getItem(localStorage, "last_visit")

\* C24: simulateReturningVisitor reports the whole days between the stored
\* last visit and now (0 when none is stored) and then stores the time of the
\* call as last visit; the stored time is never in the future, so the report is
\* never negative, and less than a day after the last visit it is 0.
C24_WholeDaysSinceLastVisit ==
  /\ [](StoredLastVisit = <<>> \/ IntValue(StoredLastVisit[1]) <= now)
  /\ [][called' = "simulateReturningVisitor" =>
          LET days == emitted'[1].measurements.daysSinceLastVisit
              elapsed == now - IntValue(StoredLastVisit[1])
          IN
          /\ Names(emitted') = <<"ReturningVisitorEngagement">>
          /\ IF StoredLastVisit = <<>>
             THEN days = 0
             ELSE /\ days * MsPerDay <= elapsed
                  /\ elapsed < (days + 1) * MsPerDay
                  /\ elapsed < MsPerDay => days = 0
          /\ days >= 0
          /\ status'.args = <<days>>
          /\ StoredLastVisit' # <<>>
          /\ IntValue(StoredLastVisit'[1]) = now']_vars

\* C24 witness: a call exactly one day after the last visit reports 1
C24_Witness ==
  /\ called = "simulateReturningVisitor"
  /\ emitted[1].measurements.daysSinceLastVisit = 1
  /\ now = MsPerDay + 1
  /\ StoredLastVisit = <<String(MsPerDay + 1)>>

\* a call one millisecond short of a day after the last visit reports 0
C24_WitnessShortOfADay ==
  /\ called = "simulateReturningVisitor"
  /\ emitted[1].measurements.daysSinceLastVisit = 0
  /\ now = MsPerDay

\* the page without its time-on-page text
FormOf(d) == [k \in DOMAIN d \ {"timeOnPage"} |-> d[k]]

\* C25: a run of the timer callback writes the whole seconds since the session
\* started into the time-on-page text and nothing else: the quote and
\* application identifiers, the counters, the session, the form, localStorage
\* and the clock are as before, no event is handed to the sink and no status
\* is shown.
C25_TimerOnlyDisplays ==
  [][called' = "startSessionTimer" =>
       /\ dom'.timeOnPage = String((now - sessionStartTime) \div 1000) \o <<"s">>
       /\ FormOf(dom') = FormOf(dom)
       /\ currentQuoteId' = currentQuoteId
       /\ currentApplicationId' = currentApplicationId
       /\ metrics' = metrics
       /\ pageViewCount' = pageViewCount
       /\ sessionId' = sessionId
       /\ sessionStartTime' = sessionStartTime
       /\ userId' = userId
       /\ localStorage' = localStorage
       /\ now' = now
       /\ emitted' = <<>>
       /\ status' = NoStatus
       /\ ~raised']_vars

\* C25 witness: the timer ran between startApplication and completeApplication
\* and changed the text
C25_Witness ==
  /\ called = "startSessionTimer"
  /\ dom.timeOnPage = <<"5", "s">>
  /\ ~IsNull(currentApplicationId)
  /\ metrics.applicationsStarted = 1
  /\ ~appCompleted

\* C26: no click on a button of the page ends in the TypeError of calling a
\* method on the undefined analyticsManager.
C26_HandlersFindManager ==
  (called # "none" /\ raised) => page.analyticsManager

\* C27: in every load of the page, however the fetch of the configuration
\* ends, analyticsManager is eventually assigned.
C27_ManagerEventuallyCreated ==
  <>(page.analyticsManager)

\* C28: a server with a telemetry client that has answered GET / has tracked
\* a HomePageAccess event for it.
C28_HomePageAccessTracked ==
  (server.client /\ server.path = "/") =>
    \E i \in 1..Len(server.events) : server.events[i] = "HomePageAccess"

\* C29: the session identifier and the session start time are the ones the
\* constructor assigned: no method of the manager and no run of its timer
\* changes either.
C29_SessionNeverMutated ==
  /\ sessionId = generateSessionId(sessionStartTime)
  /\ [][sessionId' = sessionId /\ sessionStartTime' = sessionStartTime]_vars

\* C29 witness: late in a session (after a purchase, a page view, a joined
\* cohort and a run of the timer) both are as constructed
C29_Witness ==
  /\ okCalls.purchasePolicy = 1
  /\ pageViewCount >= 1
  /\ Member
  /\ dom.timeOnPage # <<"0", "s">>
  /\ now > sessionStartTime
  /\ sessionId = generateSessionId(0)
  /\ sessionStartTime = 0

\* C30: purchasePolicy with a coverage amount field that does not parse (the
\* field is empty at the time of the purchase) still succeeds: no exception,
\* a success status, policiesSold one higher, both identifiers of the funnel
\* null again, and the Conversion event it hands over has conversionValue 0.
UnparseableCoverage == parseFloat(dom.coverageAmount).isNaN

C30_PurchaseToleratesUnparseableCoverage ==
  [][(called' = "purchasePolicy" /\ ~ApplicationMissing /\ UnparseableCoverage)
       => /\ ~raised'
          /\ status'.type = "success"
          /\ metrics'.policiesSold = metrics.policiesSold + 1
          /\ currentQuoteId' = NULL /\ currentApplicationId' = NULL
          /\ Len(emitted') = 3
          /\ emitted'[2].name = "Conversion"
          /\ emitted'[2].measurements.conversionValue = Num(0)]_vars

\* a purchase that succeeded with the Conversion event valued 0: the field
\* was empty when purchasePolicy read it (no input of the model parses to 0)
C30_Witness ==
  /\ called = "purchasePolicy" /\ status.type = "success"
  /\ metrics.policiesSold = 1 /\ currentApplicationId = NULL
  /\ Len(emitted) = 3
  /\ emitted[2].measurements.conversionValue = Num(0)

\* C31: a manager constructed over the store of an earlier session has both
\* funnel identifiers null and all five counters zero, whatever the earlier
\* session left; the user id the store held becomes its user id, and the
\* stored user id and cohort membership are what they were.
C31_NewSessionCleanFunnel ==
  [][(called' = "constructor" /\ constructed')
       => /\ currentQuoteId' = NULL /\ currentApplicationId' = NULL
          /\ \A k \in DOMAIN metrics' : metrics'[k] = 0
          /\ getItem(localStorage', "user_cohort") = StoredCohort
          /\ getItem(localStorage', "cohort_join_date") = StoredJoinDate
          /\ StoredUserId # <<>>
               => /\ userId' = StoredUserId[1]
                  /\ getItem(localStorage', "app_insights_user_id") = StoredUserId]_vars

\* a later session of a cohort member under the user id of the first session
C31_Witness ==
  /\ called = "constructor" /\ constructed
  /\ sessionStartTime > 0
  /\ Member
  /\ StoredUserId = <<userId>>
  /\ userId.t = 0
  /\ metrics = ZeroMetrics /\ IsNull(currentQuoteId)

\* C32: in every state the Start Application button is enabled exactly when
\* currentQuoteId is set, the Complete Application button is enabled exactly
\* when currentApplicationId is set, and the Purchase button is enabled only
\* if completeApplication succeeded for the application that is active.
StartButtonMirrorsQuote == (dom.startAppBtn = "enabled") <=> ~IsNull(currentQuoteId)
CompleteButtonMirrorsApplication ==
  (dom.completeAppBtn = "enabled") <=> ~IsNull(currentApplicationId)
PurchaseButtonMirrorsCompletion == (dom.purchaseBtn = "enabled") => appCompleted

C32_ButtonsMirrorFunnel ==
  /\ StartButtonMirrorsQuote
  /\ CompleteButtonMirrorsApplication
  /\ PurchaseButtonMirrorsCompletion

\* C33: every ApplicationStarted, ApplicationCompleted and PolicyPurchased
\* event carries, next to the id of the active application, the quote id that
\* was current when that application was started, also after another
\* submitQuoteRequest while the application is in progress.
ApplicationEvents == {"ApplicationStarted", "ApplicationCompleted", "PolicyPurchased"}

C33_OneQuotePerApplication ==
  [][\A i \in 1..Len(emitted') :
       emitted'[i].name \in ApplicationEvents
         => emitted'[i].properties.quoteId =
              IF called' = "startApplication" THEN quoteAtStart' ELSE quoteAtStart]_vars

\* C34: in every state applicationsStarted is at most quoteRequests and
\* applicationsCompleted is at most applicationsStarted.
C34_CountersOrderedLikeFunnel ==
  /\ metrics.applicationsStarted <= metrics.quoteRequests
  /\ metrics.applicationsCompleted <= metrics.applicationsStarted

\* C35: in every state policiesSold is at most applicationsStarted and at most
\* quoteRequests.
C35_SalesWithinFunnel ==
  /\ metrics.policiesSold <= metrics.applicationsStarted
  /\ metrics.policiesSold <= metrics.quoteRequests

\* a purchase was counted, and the next purchasePolicy found no application
C35_Witness ==
  /\ called = "purchasePolicy" /\ status.type = "error"
  /\ metrics.policiesSold = 1
  /\ metrics.applicationsStarted = 1
  /\ metrics.quoteRequests = 1

\* what a call does to the funnel, told from the form and from which of the
\* two identifiers are set, without a look at window.appInsights
Refused(call) ==
  CASE call = "submitQuoteRequest" ->
         QuoteFormIncomplete(dom.customerName, dom.insuranceType, dom.coverageAmount)
    [] call = "startApplication" -> IsNull(currentQuoteId)
    [] call = "completeApplication" ->
         IsNull(currentApplicationId) \/ Empty(dom.personalInfo)
    [] call = "purchasePolicy" -> IsNull(currentApplicationId)
    [] OTHER -> FALSE

Counter(call) ==
  CASE call = "submitQuoteRequest" -> "quoteRequests"
    [] call = "startApplication" -> "applicationsStarted"
    [] call = "completeApplication" -> "applicationsCompleted"
    [] call = "purchasePolicy" -> "policiesSold"
    [] call = "trackPageView" -> "pageViews"

Inputs(d) == <<d.customerName, d.insuranceType, d.coverageAmount, d.personalInfo>>

\* C36: each funnel call's and page view's outcome (error or success, never an
\* exception; a bounce leaves the funnel and the counters alone), the
\* counters after it, which of the two funnel identifiers are null after it
\* and the content of the form after it are one function of the call, of the
\* form and of which identifiers were null before it; window.appInsights does
\* not enter. Two runs of the same calls and entries, one with the sink and one
\* without, therefore agree on all of these after every call; without the
\* sink no event is handed over.
C36_FunnelIgnoresSink ==
  [][called' \in FunnelCalls \cup {"trackPageView", "simulateBounce"}
       => /\ ~raised'
          /\ called' # "simulateBounce"
               => status'.type = IF Refused(called') THEN "error" ELSE "success"
          /\ metrics' = IF Refused(called') \/ called' = "simulateBounce"
                        THEN metrics
                        ELSE [metrics EXCEPT ![Counter(called')] = @ + 1]
          /\ IsNull(currentQuoteId') =
               CASE Refused(called') -> IsNull(currentQuoteId)
                 [] called' = "submitQuoteRequest" -> FALSE
                 [] called' = "purchasePolicy" -> TRUE
                 [] OTHER -> IsNull(currentQuoteId)
          /\ IsNull(currentApplicationId') =
               CASE Refused(called') -> IsNull(currentApplicationId)
                 [] called' = "startApplication" -> FALSE
                 [] called' = "purchasePolicy" -> TRUE
                 [] OTHER -> IsNull(currentApplicationId)
          /\ Inputs(dom') = IF called' = "purchasePolicy" /\ ~Refused(called')
                            THEN <<"", "", <<>>, "">>
                            ELSE Inputs(dom)
          /\ ~appInsights => emitted' = <<>>]_vars

\* without the sink: a whole journey was counted and nothing was handed over
C36_Witness ==
  /\ ~appInsights
  /\ called = "purchasePolicy" /\ status.type = "success"
  /\ metrics.policiesSold = 1 /\ metrics.applicationsCompleted = 1
  /\ IsNull(currentQuoteId) /\ IsNull(currentApplicationId)
  /\ emitted = <<>>

\* the same journey with the sink: the purchase handed over its three events
C36_WitnessWithSink ==
  /\ appInsights
  /\ called = "purchasePolicy" /\ status.type = "success"
  /\ metrics.policiesSold = 1 /\ metrics.applicationsCompleted = 1
  /\ Len(emitted) = 3

\* the telemetry initializer the constructor registered: it reads this.sessionId
\* and this.userId when an item is sent and stamps them on the envelope
TelemetryInitializer(item, session_id, user_id) ==
  [tags |-> [sessionId |-> session_id, userId |-> user_id, authUserId |-> user_id],
   properties |-> [userId |-> user_id, sessionId |-> session_id],
   item |-> item]

\* C37: no call of a session changes the manager's userId, and every item
\* sent is stamped with it; simulateNewVisitor leaves the store without a user
\* id while the manager and the stamp on its own event keep the old one; the
\* store stays without a user id through every later call of the session; the
\* next session's constructor creates another user id and stores it.
C37_UserIdFixedWithinSession ==
  [][/\ called' # "constructor"
          => /\ userId' = userId
             /\ \A i \in 1..Len(emitted') :
                  TelemetryInitializer(emitted'[i], sessionId', userId').tags.userId = userId
             /\ Absent(StoredUserId) => Absent(StoredUserId')
     /\ (called' = "simulateNewVisitor" /\ ~raised') => Absent(StoredUserId')
     /\ (called' = "constructor" /\ constructed' /\ Absent(StoredUserId))
          => /\ userId' # userId
             /\ StoredUserId' = <<userId'>>]_vars

\* after simulateNewVisitor: the store has no user id, the manager has one
C37_Witness ==
  /\ called = "simulateNewVisitor" /\ status.type = "success"
  /\ Absent(StoredUserId)
  /\ userId # UNDEFINED /\ userId.prefix = "user"
  /\ Len(emitted) = 1

\* a later call of the same session finds the store still without a user id
C37_WitnessLater ==
  /\ called = "simulateReturningVisitor"
  /\ Absent(StoredUserId)
  /\ userId.prefix = "user"

\* C38: during one page load new AnalyticsManager() runs only while
\* analyticsManager is still undefined, and analyticsManager, once assigned,
\* stays assigned: at most one manager is constructed, in whatever order the
\* script, the settling of fetch('/api/config'), the 500 ms timer and
\* DOMContentLoaded come; the session id is assigned by that construction only.
C38_OneManagerPerPageLoad ==
  [][/\ called' = "constructor" => ~page.analyticsManager
     /\ page.analyticsManager => page'.analyticsManager
     /\ sessionId' # sessionId => called' = "constructor"]_vars

\* the manager was constructed by the timer after DOMContentLoaded had run
C38_Witness ==
  /\ called = "constructor"
  /\ page.analyticsManager
  /\ page.domContentLoaded
  /\ page.initTimer = "fired"

\* the same after the fetch had failed
C38_WitnessFetchFailed ==
  /\ called = "constructor"
  /\ page.analyticsManager
  /\ page.fetch = "failed"

====
